---- MODULE Spec2Model ----
(***************************************************************************)
(* Model of the CRUD Lambda handlers of the CMS backend (organizations,    *)
(* users, devices, contents, schedules) and of the DynamoDB tables they    *)
(* read and write.                                                         *)
(*                                                                         *)
(* Python values are tagged records: None, str (a sequence of one-char    *)
(* strings), int, bool, list and dict.  A request body and a stored item   *)
(* are functions from key (a TLA+ string) to such a value.                 *)
(***************************************************************************)
EXTENDS Integers, Sequences, FiniteSets, TLC

\* ------------------------------------------------------------------------
\* Python values
\* ------------------------------------------------------------------------
Null == [t |-> "null", v |-> <<>>]
Str(cs) == [t |-> "str", v |-> cs]
Num(n) == [t |-> "num", v |-> n]
Bool(b) == [t |-> "bool", v |-> b]
List(xs) == [t |-> "list", v |-> xs]
Dict(f) == [t |-> "dict", v |-> f]
Dec(n) == [t |-> "dec", v |-> n]
Float(n) == [t |-> "float", v |-> n]

\* the empty dict {} / a dict with no key
EmptyMap == [k \in {} |-> Null]

IsStr(x) == x.t = "str"
IsList(x) == x.t = "list"

\* Python truthiness: bool(x)
Truthy(x) ==
    CASE x.t = "null" -> FALSE
      [] x.t = "str" -> Len(x.v) > 0
      [] x.t = "num" -> x.v # 0
      [] x.t = "bool" -> x.v
      [] x.t = "list" -> Len(x.v) > 0
      [] x.t = "dict" -> DOMAIN x.v # {}

\* dict.get(key) and dict.get(key, default)
Get(body, key) == IF key \in DOMAIN body THEN body[key] ELSE Null
GetOr(body, key, default) == IF key \in DOMAIN body THEN body[key] ELSE default

\* d[key] = value on a dict
Put(d, key, value) == (key :> value) @@ d

\* str.lower(): the letters of the alphabet, upper case and lower case
UpperLetters == <<"A", "B", "C", "D", "E", "F", "G", "H", "I", "J", "K", "L", "M",
                  "N", "O", "P", "Q", "R", "S", "T", "U", "V", "W", "X", "Y", "Z">>
LowerLetters == <<"a", "b", "c", "d", "e", "f", "g", "h", "i", "j", "k", "l", "m",
                  "n", "o", "p", "q", "r", "s", "t", "u", "v", "w", "x", "y", "z">>
Letters == {UpperLetters[i] : i \in 1..26} \cup {LowerLetters[i] : i \in 1..26}
DigitChars == {"0", "1", "2", "3", "4", "5", "6", "7", "8", "9"}
LowerChar(c) ==
    IF \E i \in 1..26 : UpperLetters[i] = c
    THEN LowerLetters[CHOOSE i \in 1..26 : UpperLetters[i] = c]
    ELSE c
Lower(cs) == [i \in 1..Len(cs) |-> LowerChar(cs[i])]

\* ------------------------------------------------------------------------
\* json.loads on texts over the modelled alphabet (no escapes, no floats)
\* ------------------------------------------------------------------------
DigitSeq == <<"0", "1", "2", "3", "4", "5", "6", "7", "8", "9">>
DigitVal(c) == (CHOOSE i \in 1..10 : DigitSeq[i] = c) - 1
DigitChar(n) == DigitSeq[n + 1]
JsonDigits == DigitChars

JsonErr == [ok |-> FALSE, val |-> Null, pos |-> 0]
JsonOk(val, pos) == [ok |-> TRUE, val |-> val, pos |-> pos]

RECURSIVE SkipWs(_, _)
SkipWs(s, i) == IF i <= Len(s) /\ s[i] = " " THEN SkipWs(s, i + 1) ELSE i

\* the characters after an opening quote up to the closing quote
RECURSIVE ScanString(_, _, _)
ScanString(s, i, acc) ==
    IF i > Len(s) THEN JsonErr
    ELSE IF s[i] = "\"" THEN JsonOk(Str(acc), i + 1)
    ELSE ScanString(s, i + 1, Append(acc, s[i]))

\* a maximal run of digits starting at i
RECURSIVE ScanDigits(_, _, _)
ScanDigits(s, i, acc) ==
    IF i <= Len(s) /\ s[i] \in JsonDigits
    THEN ScanDigits(s, i + 1, 10 * acc + DigitVal(s[i]))
    ELSE JsonOk(Num(acc), i)

HasLiteral(s, i, lit) ==
    /\ i + Len(lit) - 1 <= Len(s)
    /\ SubSeq(s, i, i + Len(lit) - 1) = lit

RECURSIVE ParseValue(_, _)
RECURSIVE ParseElements(_, _, _)
RECURSIVE ParseMembers(_, _, _)

\* elements of an array after "[" or ",": value (, value)* ]
ParseElements(s, i, acc) ==
    LET r == ParseValue(s, i) IN
    IF ~r.ok THEN JsonErr
    ELSE LET j == SkipWs(s, r.pos) IN
         IF j > Len(s) THEN JsonErr
         ELSE IF s[j] = "]" THEN JsonOk(List(Append(acc, r.val)), j + 1)
         ELSE IF s[j] = "," THEN ParseElements(s, j + 1, Append(acc, r.val))
         ELSE JsonErr

\* members of an object after "{" or ",": "key" : value (, "key" : value)* }
ParseMembers(s, i, acc) ==
    LET k == SkipWs(s, i) IN
    IF k > Len(s) \/ s[k] # "\"" THEN JsonErr
    ELSE LET key == ScanString(s, k + 1, <<>>) IN
         IF ~key.ok THEN JsonErr
         ELSE LET c == SkipWs(s, key.pos) IN
              IF c > Len(s) \/ s[c] # ":" THEN JsonErr
              ELSE LET r == ParseValue(s, c + 1) IN
                   IF ~r.ok THEN JsonErr
                   ELSE LET j == SkipWs(s, r.pos)
                            more == Put(acc, key.val.v, r.val)
                        IN  IF j > Len(s) THEN JsonErr
                            ELSE IF s[j] = "}" THEN JsonOk(Dict(more), j + 1)
                            ELSE IF s[j] = "," THEN ParseMembers(s, j + 1, more)
                            ELSE JsonErr

ParseValue(s, i0) ==
    LET i == SkipWs(s, i0) IN
    IF i > Len(s) THEN JsonErr
    ELSE IF s[i] = "\"" THEN ScanString(s, i + 1, <<>>)
    ELSE IF s[i] = "[" THEN
        LET j == SkipWs(s, i + 1) IN
        IF j <= Len(s) /\ s[j] = "]" THEN JsonOk(List(<<>>), j + 1)
        ELSE ParseElements(s, i + 1, <<>>)
    ELSE IF s[i] = "{" THEN
        LET j == SkipWs(s, i + 1) IN
        IF j <= Len(s) /\ s[j] = "}" THEN JsonOk(Dict(EmptyMap), j + 1)
        ELSE ParseMembers(s, i + 1, EmptyMap)
    ELSE IF s[i] \in JsonDigits THEN
        IF s[i] = "0" /\ i < Len(s) /\ s[i + 1] \in JsonDigits THEN JsonErr
        ELSE ScanDigits(s, i, 0)
    ELSE IF HasLiteral(s, i, <<"n", "u", "l", "l">>) THEN JsonOk(Null, i + 4)
    ELSE IF HasLiteral(s, i, <<"t", "r", "u", "e">>) THEN JsonOk(Bool(TRUE), i + 4)
    ELSE IF HasLiteral(s, i, <<"f", "a", "l", "s", "e">>) THEN JsonOk(Bool(FALSE), i + 5)
    ELSE JsonErr

\* json.loads(text): [ok |-> FALSE] stands for json.JSONDecodeError; r is
\* the value parsed from the first character on, which must end the text
JsonLoadsEnd(s, r) ==
    IF r.ok /\ SkipWs(s, r.pos) = Len(s) + 1 THEN [ok |-> TRUE, val |-> r.val]
    ELSE [ok |-> FALSE, val |-> Null]

JsonLoads(s) == JsonLoadsEnd(s, ParseValue(s, 1))

\* ------------------------------------------------------------------------
\* Time: datetime.now().isoformat() and datetime.fromisoformat()
\* ------------------------------------------------------------------------
\* The clock counts ticks 0..9; the ISO-8601 text of tick n is "T" n.
IsoFormat(n) == Str(<<"T", DigitChar(n)>>)

\* datetime.fromisoformat(text): ok = FALSE stands for ValueError; aware tells
\* whether the text carries a UTC offset ("+00:00", written "+" in the model)
FromIsoFormat(cs) ==
    IF Len(cs) = 2 /\ cs[1] = "T" /\ cs[2] \in DigitChars
    THEN [ok |-> TRUE, time |-> DigitVal(cs[2]), aware |-> FALSE]
    ELSE IF Len(cs) = 3 /\ cs[1] = "T" /\ cs[2] \in DigitChars /\ cs[3] = "+"
    THEN [ok |-> TRUE, time |-> DigitVal(cs[2]), aware |-> TRUE]
    ELSE [ok |-> FALSE, time |-> 0, aware |-> FALSE]

\* text.replace("Z", "+00:00")
ReplaceZ(cs) == [i \in 1..Len(cs) |-> IF cs[i] = "Z" THEN "+" ELSE cs[i]]

\* ------------------------------------------------------------------------
\* DynamoDB: a table is a function from the id (partition key) of each item
\* it holds to the item.  Every call may fail for a reason of the service.
\* ------------------------------------------------------------------------
NoExc == "none"
ConditionalCheckFailed == "ConditionalCheckFailedException"
ValidationException == "ValidationException"
ParamValidationError == "ParamValidationError"
ServiceError == "ServiceError"

EmptyTable == [k \in {} |-> EmptyMap]

\* table.put_item(Item=item, ConditionExpression="attribute_not_exists(id)")
put_item(T, item, fails) ==
    IF fails THEN [exc |-> ServiceError, table |-> T]
    ELSE IF item["id"] \in DOMAIN T THEN [exc |-> ConditionalCheckFailed, table |-> T]
    ELSE [exc |-> NoExc, table |-> (item["id"] :> item) @@ T]

\* the attribute of an item that holds the time of its last write
StampOf(item) == IF "last_updated" \in DOMAIN item THEN "last_updated" ELSE "updated_at"

\* an update_item that overwrites the item with the attributes it is given,
\* as put_item would: the attributes the expression does not name are lost
update_item_replacing(T, key, sets, hasNames, overlap, fails) ==
    IF ~hasNames THEN [exc |-> ParamValidationError, table |-> T]
    ELSE IF fails THEN [exc |-> ServiceError, table |-> T]
    ELSE IF overlap THEN [exc |-> ValidationException, table |-> T]
    ELSE IF key \notin DOMAIN T THEN [exc |-> ConditionalCheckFailed, table |-> T]
    ELSE [exc |-> NoExc, table |-> [T EXCEPT ![key] = sets @@ [id |-> key]]]

\* an update_item that detects conflicts: its condition also asks that the
\* item was not written at a later time than the one the expression carries
update_item_unless_newer(T, key, sets, hasNames, overlap, fails) ==
    IF ~hasNames THEN [exc |-> ParamValidationError, table |-> T]
    ELSE IF fails THEN [exc |-> ServiceError, table |-> T]
    ELSE IF overlap THEN [exc |-> ValidationException, table |-> T]
    ELSE IF key \notin DOMAIN T THEN [exc |-> ConditionalCheckFailed, table |-> T]
    ELSE IF DigitVal(T[key][StampOf(T[key])].v[2]) > DigitVal(sets[StampOf(T[key])].v[2])
    THEN [exc |-> ConditionalCheckFailed, table |-> T]
    ELSE [exc |-> NoExc, table |-> [T EXCEPT ![key] = sets @@ T[key]]]

\* table.update_item(Key={"id": key}, UpdateExpression="SET ...",
\*                   ConditionExpression="attribute_exists(id)")
\* sets: the attributes the expression assigns; names: ExpressionAttributeNames
\* (None when hasNames is FALSE); overlap: a path is assigned twice
update_item(T, key, sets, hasNames, overlap, fails) ==
    IF ~hasNames THEN [exc |-> ParamValidationError, table |-> T]
    ELSE IF fails THEN [exc |-> ServiceError, table |-> T]
    ELSE IF overlap THEN [exc |-> ValidationException, table |-> T]
    ELSE IF key \notin DOMAIN T THEN [exc |-> ConditionalCheckFailed, table |-> T]
    ELSE [exc |-> NoExc, table |-> [T EXCEPT ![key] = sets @@ T[key]]]

\* One Scan call reads the table in the order of its keys up to 1 MB, filters
\* what it read, and returns LastEvaluatedKey for the rest; the helpers call
\* it once.  ScanPage is the number of items 1 MB holds.
ScanPage == 1

\* the place of a key in the order a Scan reads the table
ScanRank(key) == DigitVal(key.v[2])

\* the keys one Scan call reads
FirstPage(T) ==
    {k \in DOMAIN T : Cardinality({j \in DOMAIN T : ScanRank(j) < ScanRank(k)}) < ScanPage}

\* table.scan(FilterExpression="attr = :v")["Items"]: the items of the first
\* page whose attr equals v
scan(T, attr, val) ==
    {T[k] : k \in {j \in FirstPage(T) : attr \in DOMAIN T[j] /\ T[j][attr] = val}}

\* table.get_item(Key={"id": key})
get_item(T, key) ==
    IF key \in DOMAIN T THEN [found |-> TRUE, item |-> T[key]]
    ELSE [found |-> FALSE, item |-> EmptyMap]

\* the global secondary indexes of each table the stack creates
TableIndexes(res) == {}

\* table.query(IndexName=index, KeyConditionExpression="attr = :v")
query(res, T, index, attr, val, fails) ==
    IF fails THEN [exc |-> ServiceError, items |-> {}]
    ELSE IF index \notin TableIndexes(res) THEN [exc |-> ValidationException, items |-> {}]
    ELSE [exc |-> NoExc,
          items |-> {T[k] : k \in {j \in DOMAIN T : attr \in DOMAIN T[j] /\ T[j][attr] = val}}]

\* ------------------------------------------------------------------------
\* Helpers shared in text by every resource's utils/helpers.py
\* ------------------------------------------------------------------------
\* a handler's answer: the HTTP status, the table afterwards, the item in the body
Resp(status, T, data) == [status |-> status, table |-> T, data |-> data]

\* the first status of a sequence that is no 0 (None), 0 when there is none:
\* the early returns of a handler's validations, taken in order
FirstError(statuses) ==
    IF \E i \in 1..Len(statuses) : statuses[i] # 0
    THEN statuses[CHOOSE i \in 1..Len(statuses) :
                      statuses[i] # 0 /\ \A j \in 1..(i - 1) : statuses[j] = 0]
    ELSE 0

\* parse_request_body once event["body"] is read: raw is the body of the
\* event (None when the event has none), parsed what json.loads makes of it
\* when it is a str
parse_request_body_of(raw, parsed) ==
    IF raw.t = "str" /\ ~parsed.ok THEN [err |-> 400, body |-> EmptyMap]
    ELSE IF raw.t \notin {"str", "dict", "null"} THEN [err |-> 400, body |-> EmptyMap]
    ELSE IF raw.t = "str" /\ parsed.val.t # "dict" THEN [err |-> 400, body |-> EmptyMap]
    ELSE IF raw.t = "str" THEN [err |-> 0, body |-> parsed.val.v]
    ELSE IF raw.t = "dict" THEN [err |-> 0, body |-> raw.v]
    ELSE [err |-> 400, body |-> EmptyMap]

\* parse_request_body(event): err = 0 stands for None
parse_request_body(event) ==
    parse_request_body_of(
        Get(event, "body"),
        IF Get(event, "body").t = "str" THEN JsonLoads(Get(event, "body").v)
        ELSE [ok |-> FALSE, val |-> Null])

\* a validate_required_fields that asks for the key and not for a value
validate_required_keys(required, body) ==
    IF \E i \in 1..Len(required) : required[i] \notin DOMAIN body THEN 400 ELSE 0

\* validate_required_fields(body) against a REQUIRED_*_FIELDS list of columns
validate_required_fields(required, body) ==
    IF \E i \in 1..Len(required) : ~Truthy(Get(body, required[i])) THEN 400 ELSE 0

\* path_parameters.get("id") if path_parameters else None
path_id_of(path_parameters) ==
    IF path_parameters.t = "dict" /\ Truthy(path_parameters)
    THEN Get(path_parameters.v, "id")
    ELSE Null

\* event.get("pathParameters", {}) and the id in it
path_id(event) == path_id_of(GetOr(event, "pathParameters", Dict(EmptyMap)))

\* The store call of a handler that fails for a reason of the service
\* ("none": no call fails).
Faults == {"none", "scan", "write", "get"}

\* The SET clause the update helpers build from update_data: every key but
\* "updated_at" gets an attribute name; "updated_at = :current_time" is
\* appended, so a key "updated_at" in update_data assigns that path twice.
HasAttributeNames(update_data) == DOMAIN update_data \ {"updated_at"} # {}
AssignsTwice(update_data) == "updated_at" \in DOMAIN update_data
SetClause(update_data, now) == Put(update_data, "updated_at", IsoFormat(now))

\* except Exception as e: "ConditionalCheckFailedException" in str(e) -> 404
UpdateStatus(exc) ==
    IF exc = NoExc THEN 0 ELSE IF exc = ConditionalCheckFailed THEN 404 ELSE 500

\* what update_*_in_db returns after its update_item call returned u
UpdateResult(u) == [status |-> UpdateStatus(u.exc), table |-> u.table]

\* what save_*_to_db returns after its put_item call returned p, an
\* exception of which it answers with the status onError
SaveResult(p, onError) ==
    IF p.exc # NoExc THEN [status |-> onError, table |-> p.table]
    ELSE [status |-> 0, table |-> p.table]

\* get_*_by_id_from_db(id, table_name): [err, item]
get_by_id_from_db(T, key, fault) ==
    IF fault = "get" THEN [err |-> 500, item |-> EmptyMap]
    ELSE IF ~get_item(T, key).found THEN [err |-> 404, item |-> EmptyMap]
    ELSE [err |-> 0, item |-> get_item(T, key).item]

\* the end of a create handler: s is what save_*_to_db returned
CreateAnswer(s, data) ==
    IF s.status # 0 THEN Resp(s.status, s.table, EmptyMap)
    ELSE Resp(201, s.table, data)

\* the end of an update handler: g is what get_*_by_id_from_db returned
ReadBackAnswer(g, T) ==
    IF g.err # 0 THEN Resp(g.err, T, EmptyMap) ELSE Resp(200, T, g.item)

\* the end of an update handler: u is what update_*_in_db returned, and the
\* item is read back when the update succeeded
UpdateAnswer(u, key, fault) ==
    IF u.status # 0 THEN Resp(u.status, u.table, EmptyMap)
    ELSE ReadBackAnswer(get_by_id_from_db(u.table, key, fault), u.table)

\* ------------------------------------------------------------------------
\* organization/utils/helpers.py
\* ------------------------------------------------------------------------
REQUIRED_ORGANIZATION_FIELDS == <<"name", "license">>

create_organization_data(body, uuid, now) ==
    [id |-> uuid,
     name |-> body["name"],
     license |-> body["license"],
     created_at |-> IsoFormat(now),
     updated_at |-> IsoFormat(now),
     created_by |-> GetOr(body, "created_by", Str(<<>>)),
     updated_by |-> GetOr(body, "updated_by", Str(<<>>))]

\* the scan of save_organization_to_db: the items holding the license
organization_license_scan(T, organization_data) ==
    scan(T, "license", organization_data["license"])

\* a save_organization_to_db that does not look at what its scan returned
save_organization_unchecked(T, organization_data, items, fault) ==
    SaveResult(put_item(T, organization_data, fault = "write"), 500)

\* the part of save_organization_to_db after the scan, given its items
save_organization_after_scan(T, organization_data, items, fault) ==
    IF items # {} THEN [status |-> 409, table |-> T]
    ELSE SaveResult(put_item(T, organization_data, fault = "write"), 500)

save_organization_to_db(T, organization_data, fault) ==
    IF fault = "scan" THEN [status |-> 500, table |-> T]
    ELSE save_organization_after_scan(
             T, organization_data, organization_license_scan(T, organization_data), fault)

organization_allowed_fields == {"name", "license", "updated_by"}

\* a prepare_update_data that takes every key of the body
organization_update_data_unfiltered(body) == body

organization_prepare_update_data(body) ==
    [k \in organization_allowed_fields \cap DOMAIN body |-> body[k]]

\* the license check of update_organization_in_db: 409 when another
\* organization holds the license, 500 when the scan fails, 0 otherwise
organization_license_check(T, organization_id, update_data, fault) ==
    IF "license" \notin DOMAIN update_data THEN 0
    ELSE IF fault = "scan" THEN 500
    ELSE IF \E item \in scan(T, "license", update_data["license"]) :
                item["id"] # organization_id
    THEN 409
    ELSE 0

\* the update_item call of update_organization_in_db and its except clause
organization_update_write(T, organization_id, update_data, now, fault) ==
    UpdateResult(update_item(T, organization_id, SetClause(update_data, now),
                             HasAttributeNames(update_data), AssignsTwice(update_data),
                             fault = "write"))

update_organization_in_db(T, organization_id, update_data, now, fault) ==
    IF organization_license_check(T, organization_id, update_data, fault) # 0
    THEN [status |-> organization_license_check(T, organization_id, update_data, fault),
          table |-> T]
    ELSE organization_update_write(T, organization_id, update_data, now, fault)

\* create_organization.handler once the body is parsed
create_organization_parsed(p, T, uuid, now, fault) ==
    IF p.err # 0 THEN Resp(p.err, T, EmptyMap)
    ELSE IF validate_required_fields(REQUIRED_ORGANIZATION_FIELDS, p.body) # 0
    THEN Resp(400, T, EmptyMap)
    ELSE CreateAnswer(
             save_organization_to_db(T, create_organization_data(p.body, uuid, now), fault),
             create_organization_data(p.body, uuid, now))

\* create_organization.handler
create_organization_handler(event, T, uuid, now, fault) ==
    create_organization_parsed(parse_request_body(event), T, uuid, now, fault)

\* update_organization_by_id.handler once update_data is prepared
update_organization_prepared(organization_id, update_data, T, now, fault) ==
    IF DOMAIN update_data = {} THEN Resp(400, T, EmptyMap)
    ELSE UpdateAnswer(update_organization_in_db(T, organization_id, update_data, now, fault),
                      organization_id, fault)

\* update_organization_by_id.handler once the id and the body are read
update_organization_parsed(organization_id, p, T, now, fault) ==
    IF ~Truthy(organization_id) THEN Resp(400, T, EmptyMap)
    ELSE IF p.err # 0 THEN Resp(p.err, T, EmptyMap)
    ELSE IF DOMAIN p.body = {} THEN Resp(400, T, EmptyMap)
    ELSE update_organization_prepared(
             organization_id, organization_prepare_update_data(p.body), T, now, fault)

\* update_organization_by_id.handler
update_organization_handler(event, T, now, fault) ==
    update_organization_parsed(path_id(event), parse_request_body(event), T, now, fault)

\* ------------------------------------------------------------------------
\* user/utils/helpers.py, user/utils/constants.py
\* ------------------------------------------------------------------------
REQUIRED_USER_FIELDS ==
    <<"first_name", "last_name", "email", "role", "password", "organization_id">>

VALID_USER_ROLES ==
    {Str(<<"s", "u", "p", "e", "r", "a", "d", "m", "i", "n">>),
     Str(<<"a", "d", "m", "i", "n">>),
     Str(<<"u", "s", "e", "r">>),
     Str(<<"v", "i", "e", "w", "e", "r">>)}

\* the character classes of email_pattern
EmailLocalChars == Letters \cup DigitChars \cup {".", "_", "%", "+", "-"}
EmailDomainChars == Letters \cup DigitChars \cup {".", "-"}

\* re.match(r"^[a-zA-Z0-9._%+-]+@[a-zA-Z0-9.-]+\.[a-zA-Z]{2,}$", cs);
\* "$" also matches before a newline that ends the text
EmailMatches(cs) ==
    \E n \in {Len(cs)} \cup {m \in {Len(cs) - 1} : m >= 0 /\ cs[Len(cs)] = "\n"} :
      \E a \in 2..n : \E d \in (a + 2)..n :
        /\ cs[a] = "@"
        /\ cs[d] = "."
        /\ \A i \in 1..(a - 1) : cs[i] \in EmailLocalChars
        /\ \A i \in (a + 1)..(d - 1) : cs[i] \in EmailDomainChars
        /\ n - d >= 2
        /\ \A i \in (d + 1)..n : cs[i] \in Letters

\* validate_*: 0 stands for None; 500 for the TypeError re and len raise on
\* a value that is no str, which the handler's except Exception answers
validate_email_format(email) ==
    IF ~IsStr(email) THEN 500 ELSE IF EmailMatches(email.v) THEN 0 ELSE 400

validate_password_strength(password) ==
    IF ~IsStr(password) THEN 500
    ELSE IF Len(password.v) < 8 THEN 400
    ELSE IF ~\E i \in 1..Len(password.v) : password.v[i] \in Letters THEN 400
    ELSE IF ~\E i \in 1..Len(password.v) : password.v[i] \in DigitChars THEN 400
    ELSE 0

validate_user_role(role) == IF role \in VALID_USER_ROLES THEN 0 ELSE 400

\* hashlib.sha256(password.encode()).hexdigest(): the digest of a text is
\* written "#" text; it differs from every text the requests carry
hash_password(password) == Str(<<"#">> \o password.v)

create_user_data(body, uuid, now) ==
    [id |-> uuid,
     first_name |-> body["first_name"],
     last_name |-> body["last_name"],
     email |-> Str(Lower(body["email"].v)),
     role |-> body["role"],
     password |-> hash_password(body["password"]),
     organization_id |-> body["organization_id"],
     created_at |-> IsoFormat(now),
     updated_at |-> IsoFormat(now),
     created_by |-> GetOr(body, "created_by", Str(<<>>)),
     updated_by |-> GetOr(body, "updated_by", Str(<<>>))]

\* the scan of save_user_to_db: the items holding the email
user_email_scan(T, user_data) == scan(T, "email", user_data["email"])

\* a save_user_to_db that does not look at what its scan returned
save_user_unchecked(T, user_data, items, fault) ==
    SaveResult(put_item(T, user_data, fault = "write"), 500)

\* a save_user_to_db whose insert is conditional on the email as well: the
\* table is asked again when the item is put
save_user_email_guarded(T, user_data, items, fault) ==
    IF items # {} \/ scan(T, "email", user_data["email"]) # {}
    THEN [status |-> 409, table |-> T]
    ELSE SaveResult(put_item(T, user_data, fault = "write"), 500)

\* the part of save_user_to_db after the scan, given its items
save_user_after_scan(T, user_data, items, fault) ==
    IF items # {} THEN [status |-> 409, table |-> T]
    ELSE SaveResult(put_item(T, user_data, fault = "write"), 500)

save_user_to_db(T, user_data, fault) ==
    IF fault = "scan" THEN [status |-> 500, table |-> T]
    ELSE save_user_after_scan(T, user_data, user_email_scan(T, user_data), fault)

\* a response that serialises the record as it is stored
user_response_data_as_stored(user) == user

\* create_success_response / create_user_response: the item without password
user_response_data(user) == [k \in DOMAIN user \ {"password"} |-> user[k]]

\* the answer of a user handler, its item without the password
user_response(r) == [r EXCEPT !.data = user_response_data(r.data)]

user_allowed_fields ==
    {"first_name", "last_name", "email", "role", "password", "updated_by"}

user_prepare_update_data(body) ==
    [k \in user_allowed_fields \cap DOMAIN body |->
        IF k = "password" THEN hash_password(body[k]) ELSE body[k]]

\* the email check of update_user_in_db once its query on the index
\* "email-index" returned q
user_email_checked(q, user_id) ==
    IF q.exc # NoExc THEN 500
    ELSE IF \E item \in q.items : item["id"] # user_id THEN 409
    ELSE 0

\* the email check of update_user_in_db: 0 when the update may proceed
user_email_check(T, user_id, update_data, fault) ==
    IF "email" \notin DOMAIN update_data THEN 0
    ELSE user_email_checked(
             query("user", T, "email-index", "email",
                   Str(Lower(update_data["email"].v)), fault = "scan"),
             user_id)

\* update_data as update_user_in_db writes it: the email in lower case
user_update_values(update_data) ==
    [k \in DOMAIN update_data |->
        IF k = "email" THEN Str(Lower(update_data[k].v)) ELSE update_data[k]]

\* the update_item call of update_user_in_db and its except clause
user_update_write(T, user_id, update_data, now, fault) ==
    UpdateResult(update_item(T, user_id, SetClause(user_update_values(update_data), now),
                             HasAttributeNames(update_data), AssignsTwice(update_data),
                             fault = "write"))

update_user_in_db(T, user_id, update_data, now, fault) ==
    IF user_email_check(T, user_id, update_data, fault) # 0
    THEN [status |-> user_email_check(T, user_id, update_data, fault), table |-> T]
    ELSE user_update_write(T, user_id, update_data, now, fault)

\* the validations of create_user.handler after the required fields
create_user_validation(body) ==
    FirstError(<<validate_email_format(body["email"]),
                 validate_password_strength(body["password"]),
                 validate_user_role(body["role"])>>)

\* create_user.handler once the body is parsed
create_user_parsed(p, T, uuid, now, fault) ==
    IF p.err # 0 THEN Resp(p.err, T, EmptyMap)
    ELSE IF validate_required_fields(REQUIRED_USER_FIELDS, p.body) # 0
    THEN Resp(400, T, EmptyMap)
    ELSE IF create_user_validation(p.body) # 0
    THEN Resp(create_user_validation(p.body), T, EmptyMap)
    ELSE CreateAnswer(save_user_to_db(T, create_user_data(p.body, uuid, now), fault),
                      create_user_data(p.body, uuid, now))

\* create_user.handler
create_user_handler(event, T, uuid, now, fault) ==
    user_response(create_user_parsed(parse_request_body(event), T, uuid, now, fault))

\* the validations of update_user_by_id.handler: each field only if provided
update_user_validation(body) ==
    FirstError(<<IF "email" \in DOMAIN body THEN validate_email_format(body["email"]) ELSE 0,
                 IF "password" \in DOMAIN body
                 THEN validate_password_strength(body["password"]) ELSE 0,
                 IF "role" \in DOMAIN body THEN validate_user_role(body["role"]) ELSE 0>>)

\* update_user_by_id.handler once update_data is prepared
update_user_prepared(user_id, update_data, T, now, fault) ==
    IF DOMAIN update_data = {} THEN Resp(400, T, EmptyMap)
    ELSE UpdateAnswer(update_user_in_db(T, user_id, update_data, now, fault),
                      user_id, fault)

\* update_user_by_id.handler once the id and the body are read
update_user_parsed(user_id, p, T, now, fault) ==
    IF ~Truthy(user_id) THEN Resp(400, T, EmptyMap)
    ELSE IF p.err # 0 THEN Resp(p.err, T, EmptyMap)
    ELSE IF DOMAIN p.body = {} THEN Resp(400, T, EmptyMap)
    ELSE IF update_user_validation(p.body) # 0
    THEN Resp(update_user_validation(p.body), T, EmptyMap)
    ELSE update_user_prepared(user_id, user_prepare_update_data(p.body), T, now, fault)

\* get_user_by_id.handler once the id of the path is read and, when there is
\* one, get_user_by_id_from_db returned g
get_user_answer(user_id, g, T) ==
    IF ~Truthy(user_id) THEN Resp(400, T, EmptyMap)
    ELSE IF g.err # 0 THEN Resp(g.err, T, EmptyMap)
    ELSE Resp(200, T, user_response_data(g.item))

\* get_user_by_id.handler
get_user_handler(event, T, fault) ==
    get_user_answer(path_id(event), get_by_id_from_db(T, path_id(event), fault), T)

\* update_user_by_id.handler
update_user_handler(event, T, now, fault) ==
    user_response(
        update_user_parsed(path_id(event), parse_request_body(event), T, now, fault))

\* ------------------------------------------------------------------------
\* parse_array_fields, the same text in the device, content and schedule helpers
\* ------------------------------------------------------------------------
\* the value parse_array_fields gives a field whose value is a str, loaded
\* being what json.loads made of it
parse_array_loaded(loaded) == IF loaded.ok THEN loaded.val ELSE List(<<>>)

\* a parse_array_fields that takes a value for an array only when it is a str
parse_array_value_from_text_only(field_value) ==
    IF IsStr(field_value) THEN parse_array_loaded(JsonLoads(field_value.v))
    ELSE List(<<>>)

\* the value parse_array_fields gives one field
parse_array_value(field_value) ==
    IF IsStr(field_value) THEN parse_array_loaded(JsonLoads(field_value.v))
    ELSE IF field_value = Null THEN List(<<>>)
    ELSE field_value

\* a parse_array_fields that returns the fields the body carries a value for
parse_array_fields_of_present_values(field_names, body) ==
    [f \in {g \in field_names : Get(body, g) # Null} |-> parse_array_value(Get(body, f))]

parse_array_fields(field_names, body) ==
    [f \in field_names |-> parse_array_value(Get(body, f))]

\* ------------------------------------------------------------------------
\* device/utils/helpers.py
\* ------------------------------------------------------------------------
REQUIRED_DEVICE_FIELDS == <<"name", "organization_id">>

device_array_fields == {"playlists", "applications", "contents"}

device_parse_array_fields(body) == parse_array_fields(device_array_fields, body)

\* Decimal(str(x)): ok = FALSE stands for decimal.InvalidOperation
ToDecimal(x) ==
    IF x.t = "num" THEN [ok |-> TRUE, val |-> Dec(x.v)]
    ELSE IF x.t = "dec" THEN [ok |-> TRUE, val |-> x]
    ELSE IF IsStr(x) /\ Len(x.v) > 0 /\ \A i \in 1..Len(x.v) : x.v[i] \in DigitChars
    THEN [ok |-> TRUE, val |-> Dec(ScanDigits(x.v, 1, 0).val.v)]
    ELSE [ok |-> FALSE, val |-> Null]

device_storage_fields == {"storage_left", "storage_consumed"}

\* convert_storage_values(body): ok = FALSE when a Decimal(...) raises
convert_storage_values(body) ==
    [ok |-> \A f \in device_storage_fields : Get(body, f) = Null \/ ToDecimal(Get(body, f)).ok,
     result |-> [f \in device_storage_fields |->
                    IF Get(body, f) = Null THEN Null ELSE ToDecimal(Get(body, f)).val]]

\* a create_device_data that gives a device the status its body carries
device_data_of_body_status(body, arrays, storage, uuid, now) ==
    [id |-> uuid,
     name |-> body["name"],
     organization_id |-> body["organization_id"],
     description |-> Get(body, "description"),
     model |-> Get(body, "model"),
     version |-> Get(body, "version"),
     ip_address |-> Get(body, "ip_address"),
     playlists |-> arrays["playlists"],
     applications |-> arrays["applications"],
     contents |-> arrays["contents"],
     status |-> Get(body, "status"),
     last_seen |-> IsoFormat(now),
     last_updated |-> IsoFormat(now),
     storage_left |-> storage["storage_left"],
     storage_consumed |-> storage["storage_consumed"]]

\* the dictionary create_device_data builds from the parsed arrays and the
\* converted storage values
device_data_of(body, arrays, storage, uuid, now) ==
    [id |-> uuid,
     name |-> body["name"],
     organization_id |-> body["organization_id"],
     description |-> Get(body, "description"),
     model |-> Get(body, "model"),
     version |-> Get(body, "version"),
     ip_address |-> Get(body, "ip_address"),
     playlists |-> arrays["playlists"],
     applications |-> arrays["applications"],
     contents |-> arrays["contents"],
     status |-> GetOr(body, "status", Str(<<"a", "c", "t", "i", "v", "e">>)),
     last_seen |-> IsoFormat(now),
     last_updated |-> IsoFormat(now),
     storage_left |-> storage["storage_left"],
     storage_consumed |-> storage["storage_consumed"]]

create_device_data(body, uuid, now) ==
    device_data_of(body, device_parse_array_fields(body),
                   convert_storage_values(body).result, uuid, now)

\* save_device_to_db: every exception of put_item is answered 409
save_device_to_db(T, device_data, fault) ==
    SaveResult(put_item(T, device_data, fault = "write"), 409)

device_basic_fields == {"name", "description", "model", "version", "ip_address", "status"}

\* the keys prepare_update_data of the device helpers may write
device_allowed_fields == device_basic_fields \cup device_array_fields \cup device_storage_fields

\* a prepare_update_data that takes every array parse_array_fields returns,
\* the arrays the body does not carry included
device_update_data_every_array(body, arrays, storage) ==
    [k \in (device_basic_fields \cap DOMAIN body)
             \cup device_array_fields
             \cup {f \in device_storage_fields \cap DOMAIN body : storage[f] # Null} |->
        IF k \in device_array_fields THEN arrays[k]
        ELSE IF k \in device_storage_fields THEN storage[k]
        ELSE body[k]]

\* prepare_update_data of the device helpers, from the parsed arrays and the
\* converted storage values
device_update_data_of(body, arrays, storage) ==
    [k \in (device_basic_fields \cap DOMAIN body)
             \cup (device_array_fields \cap DOMAIN body)
             \cup {f \in device_storage_fields \cap DOMAIN body : storage[f] # Null} |->
        IF k \in device_array_fields THEN arrays[k]
        ELSE IF k \in device_storage_fields THEN storage[k]
        ELSE body[k]]

device_prepare_update_data(body) ==
    device_update_data_of(body, device_parse_array_fields(body),
                          convert_storage_values(body).result)

\* the SET clause of update_device_in_db: every key but "id", then last_updated
device_set_clause(update_data, now) ==
    Put([k \in DOMAIN update_data \ {"id"} |-> update_data[k]],
        "last_updated", IsoFormat(now))

update_device_in_db(T, device_id, update_data, now, fault) ==
    UpdateResult(update_item(T, device_id, device_set_clause(update_data, now), TRUE,
                             "last_updated" \in DOMAIN update_data, fault = "write"))

\* format_response_device: float(...) of the storage values that are not None
format_response_device(device_data) ==
    [k \in DOMAIN device_data |->
        IF k \in device_storage_fields /\ device_data[k] # Null
        THEN Float(device_data[k].v)
        ELSE device_data[k]]

\* the answer of a device handler, its item formatted
device_response(r) == [r EXCEPT !.data = format_response_device(r.data)]

\* create_device.handler once the body is parsed
create_device_parsed(p, T, uuid, now, fault) ==
    IF p.err # 0 THEN Resp(p.err, T, EmptyMap)
    ELSE IF validate_required_fields(REQUIRED_DEVICE_FIELDS, p.body) # 0
    THEN Resp(400, T, EmptyMap)
    ELSE IF ~convert_storage_values(p.body).ok THEN Resp(500, T, EmptyMap)
    ELSE CreateAnswer(save_device_to_db(T, create_device_data(p.body, uuid, now), fault),
                      create_device_data(p.body, uuid, now))

\* create_device.handler
create_device_handler(event, T, uuid, now, fault) ==
    device_response(create_device_parsed(parse_request_body(event), T, uuid, now, fault))

\* an update_device_by_id.handler that does not reject an empty update_data
update_device_unguarded(device_id, update_data, T, now, fault) ==
    UpdateAnswer(update_device_in_db(T, device_id, update_data, now, fault),
                 device_id, fault)

\* update_device_by_id.handler once update_data is prepared
update_device_prepared(device_id, update_data, T, now, fault) ==
    IF DOMAIN update_data = {} THEN Resp(400, T, EmptyMap)
    ELSE UpdateAnswer(update_device_in_db(T, device_id, update_data, now, fault),
                      device_id, fault)

\* update_device_by_id.handler once the id and the body are read
update_device_parsed(device_id, p, T, now, fault) ==
    IF ~Truthy(device_id) THEN Resp(400, T, EmptyMap)
    ELSE IF p.err # 0 THEN Resp(p.err, T, EmptyMap)
    ELSE IF DOMAIN p.body = {} THEN Resp(400, T, EmptyMap)
    ELSE IF ~convert_storage_values(p.body).ok THEN Resp(500, T, EmptyMap)
    ELSE update_device_prepared(device_id, device_prepare_update_data(p.body), T, now, fault)

\* update_device_by_id.handler
update_device_handler(event, T, now, fault) ==
    device_response(
        update_device_parsed(path_id(event), parse_request_body(event), T, now, fault))

\* ------------------------------------------------------------------------
\* content/utils/helpers.py
\* ------------------------------------------------------------------------
REQUIRED_CONTENT_FIELDS == <<"url", "title", "organization_id">>

content_array_fields == {"assigned_to", "playlists"}

content_parse_array_fields(body) == parse_array_fields(content_array_fields, body)

\* the dictionary create_content_data builds from the parsed arrays
content_data_of(body, arrays, uuid, now) ==
    [id |-> uuid,
     url |-> body["url"],
     thumbnail |-> GetOr(body, "thumbnail", Str(<<>>)),
     title |-> body["title"],
     description |-> GetOr(body, "description", Str(<<>>)),
     is_active |-> GetOr(body, "is_active", Bool(TRUE)),
     is_deleted |-> GetOr(body, "is_deleted", Bool(FALSE)),
     assigned_to |-> arrays["assigned_to"],
     playlists |-> arrays["playlists"],
     organization_id |-> body["organization_id"],
     created_at |-> IsoFormat(now),
     updated_at |-> IsoFormat(now),
     created_by |-> GetOr(body, "created_by", Str(<<>>)),
     updated_by |-> GetOr(body, "updated_by", Str(<<>>))]

create_content_data(body, uuid, now) ==
    content_data_of(body, content_parse_array_fields(body), uuid, now)

\* save_content_to_db: every exception of put_item is answered 409
save_content_to_db(T, content_data, fault) ==
    SaveResult(put_item(T, content_data, fault = "write"), 409)

content_allowed_fields ==
    {"url", "thumbnail", "title", "description", "is_active", "is_deleted",
     "assigned_to", "playlists", "updated_by"}

content_prepare_update_data(body) ==
    [k \in content_allowed_fields \cap DOMAIN body |->
        IF k \in content_array_fields
        THEN content_parse_array_fields((k :> body[k]))[k]
        ELSE body[k]]

update_content_in_db(T, content_id, update_data, now, fault) ==
    UpdateResult(update_item(T, content_id, SetClause(update_data, now),
                             HasAttributeNames(update_data), AssignsTwice(update_data),
                             fault = "write"))

\* create_content.handler once the body is parsed
create_content_parsed(p, T, uuid, now, fault) ==
    IF p.err # 0 THEN Resp(p.err, T, EmptyMap)
    ELSE IF validate_required_fields(REQUIRED_CONTENT_FIELDS, p.body) # 0
    THEN Resp(400, T, EmptyMap)
    ELSE CreateAnswer(save_content_to_db(T, create_content_data(p.body, uuid, now), fault),
                      create_content_data(p.body, uuid, now))

\* create_content.handler
create_content_handler(event, T, uuid, now, fault) ==
    create_content_parsed(parse_request_body(event), T, uuid, now, fault)

\* update_content_by_id.handler once update_data is prepared
update_content_prepared(content_id, update_data, T, now, fault) ==
    IF DOMAIN update_data = {} THEN Resp(400, T, EmptyMap)
    ELSE UpdateAnswer(update_content_in_db(T, content_id, update_data, now, fault),
                      content_id, fault)

\* update_content_by_id.handler once the id and the body are read
update_content_parsed(content_id, p, T, now, fault) ==
    IF ~Truthy(content_id) THEN Resp(400, T, EmptyMap)
    ELSE IF p.err # 0 THEN Resp(p.err, T, EmptyMap)
    ELSE IF DOMAIN p.body = {} THEN Resp(400, T, EmptyMap)
    ELSE update_content_prepared(content_id, content_prepare_update_data(p.body), T, now, fault)

\* update_content_by_id.handler
update_content_handler(event, T, now, fault) ==
    update_content_parsed(path_id(event), parse_request_body(event), T, now, fault)

\* ------------------------------------------------------------------------
\* schedule/utils/helpers.py
\* ------------------------------------------------------------------------
REQUIRED_SCHEDULE_FIELDS == <<"start_at", "end_at", "organization_id">>

schedule_array_fields == {"assigned_to", "contents", "playlists"}

schedule_parse_array_fields(body) == parse_array_fields(schedule_array_fields, body)

\* validate_datetime_format: 0 stands for None, 500 for the AttributeError of
\* .replace on a value that is no str
validate_datetime_format(datetime_str) ==
    IF ~IsStr(datetime_str) THEN 500
    ELSE IF FromIsoFormat(ReplaceZ(datetime_str.v)).ok THEN 0
    ELSE 400

\* validate_schedule_times once both texts are parsed: 500 stands for the
\* TypeError of comparing an offset-naive with an offset-aware datetime
schedule_times_of(start_at, end_at) ==
    IF ~start_at.ok \/ ~end_at.ok THEN 400
    ELSE IF start_at.aware # end_at.aware THEN 500
    ELSE IF start_at.time >= end_at.time THEN 400
    ELSE 0

validate_schedule_times(body) ==
    schedule_times_of(FromIsoFormat(ReplaceZ(body["start_at"].v)),
                      FromIsoFormat(ReplaceZ(body["end_at"].v)))

\* the dictionary create_schedule_data builds from the parsed arrays
schedule_data_of(body, arrays, uuid, now) ==
    [id |-> uuid,
     start_at |-> body["start_at"],
     end_at |-> body["end_at"],
     loop |-> GetOr(body, "loop", Bool(FALSE)),
     is_active |-> GetOr(body, "is_active", Bool(TRUE)),
     assigned_to |-> arrays["assigned_to"],
     contents |-> arrays["contents"],
     playlists |-> arrays["playlists"],
     organization_id |-> body["organization_id"],
     created_at |-> IsoFormat(now),
     updated_at |-> IsoFormat(now),
     created_by |-> GetOr(body, "created_by", Str(<<>>)),
     updated_by |-> GetOr(body, "updated_by", Str(<<>>))]

create_schedule_data(body, uuid, now) ==
    schedule_data_of(body, schedule_parse_array_fields(body), uuid, now)

\* save_schedule_to_db: every exception of put_item is answered 409
save_schedule_to_db(T, schedule_data, fault) ==
    SaveResult(put_item(T, schedule_data, fault = "write"), 409)

schedule_allowed_fields ==
    {"start_at", "end_at", "loop", "is_active", "assigned_to", "contents",
     "playlists", "updated_by"}

schedule_prepare_update_data(body) ==
    [k \in schedule_allowed_fields \cap DOMAIN body |->
        IF k \in schedule_array_fields
        THEN schedule_parse_array_fields((k :> body[k]))[k]
        ELSE body[k]]

update_schedule_in_db(T, schedule_id, update_data, now, fault) ==
    UpdateResult(update_item(T, schedule_id, SetClause(update_data, now),
                             HasAttributeNames(update_data), AssignsTwice(update_data),
                             fault = "write"))

\* the datetime validations of create_schedule.handler; the times are
\* compared only when both formats are valid
create_schedule_validation(body) ==
    IF validate_datetime_format(body["start_at"]) # 0
    THEN validate_datetime_format(body["start_at"])
    ELSE IF validate_datetime_format(body["end_at"]) # 0
    THEN validate_datetime_format(body["end_at"])
    ELSE validate_schedule_times(body)

\* create_schedule.handler once the body is parsed
create_schedule_parsed(p, T, uuid, now, fault) ==
    IF p.err # 0 THEN Resp(p.err, T, EmptyMap)
    ELSE IF validate_required_fields(REQUIRED_SCHEDULE_FIELDS, p.body) # 0
    THEN Resp(400, T, EmptyMap)
    ELSE IF create_schedule_validation(p.body) # 0
    THEN Resp(create_schedule_validation(p.body), T, EmptyMap)
    ELSE CreateAnswer(save_schedule_to_db(T, create_schedule_data(p.body, uuid, now), fault),
                      create_schedule_data(p.body, uuid, now))

\* create_schedule.handler
create_schedule_handler(event, T, uuid, now, fault) ==
    create_schedule_parsed(parse_request_body(event), T, uuid, now, fault)

\* the datetime validations of update_schedule_by_id.handler
update_schedule_validation(body) ==
    IF "start_at" \in DOMAIN body /\ validate_datetime_format(body["start_at"]) # 0
    THEN validate_datetime_format(body["start_at"])
    ELSE IF "end_at" \in DOMAIN body /\ validate_datetime_format(body["end_at"]) # 0
    THEN validate_datetime_format(body["end_at"])
    ELSE IF "start_at" \in DOMAIN body /\ "end_at" \in DOMAIN body
    THEN validate_schedule_times(body)
    ELSE 0

\* update_schedule_by_id.handler once update_data is prepared
update_schedule_prepared(schedule_id, update_data, T, now, fault) ==
    IF DOMAIN update_data = {} THEN Resp(400, T, EmptyMap)
    ELSE UpdateAnswer(update_schedule_in_db(T, schedule_id, update_data, now, fault),
                      schedule_id, fault)

\* update_schedule_by_id.handler once the id and the body are read
update_schedule_parsed(schedule_id, p, T, now, fault) ==
    IF ~Truthy(schedule_id) THEN Resp(400, T, EmptyMap)
    ELSE IF p.err # 0 THEN Resp(p.err, T, EmptyMap)
    ELSE IF DOMAIN p.body = {} THEN Resp(400, T, EmptyMap)
    ELSE IF update_schedule_validation(p.body) # 0
    THEN Resp(update_schedule_validation(p.body), T, EmptyMap)
    ELSE update_schedule_prepared(schedule_id, schedule_prepare_update_data(p.body), T, now, fault)

\* update_schedule_by_id.handler
update_schedule_handler(event, T, now, fault) ==
    update_schedule_parsed(path_id(event), parse_request_body(event), T, now, fault)

\* ------------------------------------------------------------------------
\* Bounds and the requests the model sends
\* ------------------------------------------------------------------------
\* requests handled in one run
MaxReq == 2
\* the last tick of the clock
MaxClock == 1

Resources == {"organization", "user", "device", "content", "schedule"}

\* str(uuid.uuid4()): the ids a create may draw, an earlier one again included
Uuids == {Str(<<"u", "1">>), Str(<<"u", "2">>)}

sX == Str(<<"X">>)
sY == Str(<<"Y">>)
sOrg == Str(<<"o", "1">>)
Lic1 == Str(<<"L", "1">>)
Lic2 == Str(<<"L", "2">>)
MailA == Str(<<"a", "@", "b", ".", "c", "o">>)
MailAUpper == Str(<<"A", "@", "b", ".", "c", "o">>)
MailC == Str(<<"c", "@", "b", ".", "c", "o">>)
MailBad == Str(<<"a", "b">>)
Pass1 == Str(<<"p", "a", "s", "s", "w", "o", "r", "1">>)
RoleAdmin == Str(<<"a", "d", "m", "i", "n">>)
Inactive == Str(<<"i", "n", "a", "c", "t", "i", "v", "e">>)

\* what a request may carry in an array field
JsonArrayText == Str(<<"[", "\"", "a", "\"", ",", "\"", "b", "\"", "]">>)
JsonNumberText == Str(<<"5">>)
JsonObjectText == Str(<<"{", "}">>)
JsonStringText == Str(<<"\"", "a", "\"">>)
BadJsonText == Str(<<"x", "]">>)
NativeList == List(<<Str(<<"a">>)>>)
RawArrayValues ==
    {JsonArrayText, JsonNumberText, JsonObjectText, JsonStringText, BadJsonText,
     Null, NativeList, Num(7)}
FewRawArrayValues == {JsonArrayText, JsonNumberText, Num(7)}

OrganizationBase == [name |-> sX, license |-> Lic1]
UserBase ==
    [first_name |-> sX, last_name |-> sY, email |-> MailA, role |-> RoleAdmin,
     password |-> Pass1, organization_id |-> sOrg]
DeviceBase == [name |-> sX, organization_id |-> sOrg]
ContentBase == [url |-> sX, title |-> sY, organization_id |-> sOrg]
ScheduleBase == [start_at |-> IsoFormat(1), end_at |-> IsoFormat(2), organization_id |-> sOrg]

\* keys no update may write
Immutable == [id |-> Str(<<"u", "2">>), created_at |-> IsoFormat(5), created_by |-> sY]

\* the same keys beside one the update of res may write
ImmutableAnd(res) ==
    CASE res = "organization" -> Put(Immutable, "name", sY)
      [] res = "user" -> Put(Immutable, "first_name", sY)
      [] res = "device" -> Put(Immutable, "status", Inactive)
      [] res = "content" -> Put(Immutable, "title", sX)
      [] res = "schedule" -> Put(Immutable, "loop", Bool(TRUE))

CreateBodies(res) ==
    CASE res = "organization" ->
           {OrganizationBase,
            Put(OrganizationBase, "name", sY),
            Put(Put(OrganizationBase, "license", Lic2), "created_by", sY),
            [name |-> sX]}
      [] res = "user" ->
           {UserBase,
            Put(UserBase, "email", MailAUpper),
            Put(UserBase, "email", MailC),
            Put(UserBase, "email", MailBad),
            Put(UserBase, "password", sX)}
      [] res = "device" ->
           {DeviceBase, Put(DeviceBase, "storage_left", Num(5)), [name |-> sX]}
             \cup {Put(DeviceBase, "playlists", v) : v \in RawArrayValues}
      [] res = "content" ->
           {ContentBase, [url |-> sX]}
             \cup {Put(ContentBase, "assigned_to", v) : v \in FewRawArrayValues}
      [] res = "schedule" ->
           {ScheduleBase,
            Put(ScheduleBase, "end_at", IsoFormat(1)),
            Put(ScheduleBase, "end_at", Str(<<"T", "2", "Z">>))}
             \cup {Put(ScheduleBase, "contents", v) : v \in FewRawArrayValues}

UpdateBodies(res) ==
    {EmptyMap, Immutable, ImmutableAnd(res)} \cup
    CASE res = "organization" ->
           {[name |-> sY], [license |-> Lic1], [license |-> Lic2],
            [name |-> sY, updated_by |-> sX, id |-> Str(<<"u", "2">>)]}
      [] res = "user" ->
           {[first_name |-> sY], [email |-> MailC], [email |-> MailAUpper],
            [email |-> MailBad], [password |-> Pass1, updated_by |-> sX],
            [role |-> sX]}
      [] res = "device" ->
           {[status |-> Inactive], [storage_left |-> Null], [storage_consumed |-> Num(7)],
            [name |-> sY, contents |-> JsonArrayText, last_updated |-> sX]}
             \cup {[playlists |-> v] : v \in RawArrayValues}
      [] res = "content" ->
           {[title |-> sX], [is_active |-> Bool(FALSE), playlists |-> JsonArrayText]}
             \cup {[assigned_to |-> v] : v \in FewRawArrayValues}
      [] res = "schedule" ->
           {[start_at |-> IsoFormat(3)], [end_at |-> IsoFormat(0)], [loop |-> Bool(TRUE)],
            [start_at |-> IsoFormat(2), end_at |-> IsoFormat(1)]}
             \cup {[contents |-> v] : v \in FewRawArrayValues}

\* API Gateway events whose body is no JSON object
BadEvents ==
    {[pathParameters |-> Dict([id |-> Str(<<"u", "1">>)])],
     [pathParameters |-> Dict([id |-> Str(<<"u", "1">>)]), body |-> Str(<<"x">>)],
     [pathParameters |-> Dict([id |-> Str(<<"u", "1">>)]), body |-> Str(<<"[", "]">>)],
     [pathParameters |-> Dict([id |-> Str(<<"u", "1">>)]), body |-> Num(7)],
     [pathParameters |-> Dict([id |-> Str(<<"u", "1">>)]), body |-> Str(<<"{", "}">>)]}

\* create bodies with a required field that is empty or null
EmptyRequiredBodies(res) ==
    CASE res = "organization" -> {Put(OrganizationBase, "name", Str(<<>>))}
      [] res = "user" -> {Put(UserBase, "email", Str(<<>>))}
      [] res = "device" -> {Put(DeviceBase, "name", Null)}
      [] res = "content" -> {Put(ContentBase, "url", Str(<<>>))}
      [] res = "schedule" -> {Put(ScheduleBase, "start_at", Str(<<>>))}

\* events whose body is null, or a text that is no JSON or no JSON object
BadBodyEvents ==
    {[body |-> Null], [body |-> Str(<<"{">>)], [body |-> Str(<<"[", "1", ",", "]">>)],
     [body |-> JsonNumberText], [body |-> Str(<<"{", "\"", "a", "\"", "}">>)]}

CreateEvents(res) ==
    {[body |-> Dict(b)] : b \in CreateBodies(res) \cup EmptyRequiredBodies(res)}
      \cup BadEvents \cup BadBodyEvents

UpdateEvents(res) ==
    {[pathParameters |-> Dict([id |-> u]), body |-> Dict(b)] :
        u \in Uuids, b \in UpdateBodies(res)}
      \cup {[body |-> Dict([name |-> sY])]}
      \cup BadEvents

\* the events a failing store call is tried with
FaultEvents(res) ==
    {[body |-> Dict(b)] : b \in {OrganizationBase, UserBase, DeviceBase, ContentBase,
                                 ScheduleBase}}
      \cup {[pathParameters |-> Dict([id |-> Str(<<"u", "1">>)]), body |-> Dict(b)] :
               b \in {[name |-> sY], [license |-> Lic2], [email |-> MailC], [title |-> sX],
                      [loop |-> Bool(TRUE)]}}

FaultsFor(res, event) == IF event \in FaultEvents(res) THEN Faults ELSE {"none"}

\* ------------------------------------------------------------------------
\* State
\* ------------------------------------------------------------------------
VARIABLES
    tables,   \* the DynamoDB table of each resource
    now,      \* the clock datetime.now() reads
    nreq,     \* requests handled so far
    last,     \* the last request and its answer
    before,   \* the tables before the last request
    procs     \* the requests in flight when handlers run concurrently

vars == <<tables, now, nreq, last, before, procs>>

NoRequest ==
    [op |-> "none", res |-> "none", event |-> EmptyMap, uuid |-> Null, fault |-> "none",
     at |-> 0, status |-> 0, data |-> EmptyMap, by |-> "none"]

\* the Lambda invocations that may run at the same time
Procs == {"p1", "p2"}

\* an invocation that has not received its request
Idle ==
    [pc |-> "idle", op |-> "none", res |-> "none", id |-> Null, data |-> EmptyMap,
     at |-> 0, status |-> 0, wrote |-> FALSE, item |-> EmptyMap]

Init ==
    /\ tables = [r \in Resources |-> EmptyTable]
    /\ now = 0
    /\ nreq = 0
    /\ last = NoRequest
    /\ before = [r \in Resources |-> EmptyTable]
    /\ procs = [p \in Procs |-> Idle]

\* one run sends its requests to one resource: the handlers of two resources
\* share no table
Addressed(res) == nreq < MaxReq /\ (last.res = "none" \/ last.res = res)

\* the handler of (op, res) answered r to the request
Handled(op, res, event, uuid, fault, r) ==
    /\ tables' = [tables EXCEPT ![res] = r.table]
    /\ last' = [op |-> op, res |-> res, event |-> event, uuid |-> uuid, fault |-> fault,
                at |-> now, status |-> r.status, data |-> r.data, by |-> "none"]
    /\ before' = tables
    /\ nreq' = nreq + 1
    /\ UNCHANGED <<now, procs>>

Tick ==
    /\ now < MaxClock
    /\ now' = now + 1
    /\ UNCHANGED <<tables, nreq, last, before, procs>>

CreateOrganization ==
    /\ Addressed("organization")
    /\ \E event \in CreateEvents("organization"), uuid \in Uuids :
         \E fault \in FaultsFor("organization", event) :
           Handled("create", "organization", event, uuid, fault,
                   create_organization_handler(event, tables["organization"], uuid, now, fault))

UpdateOrganization ==
    /\ Addressed("organization")
    /\ \E event \in UpdateEvents("organization") :
         \E fault \in FaultsFor("organization", event) :
           Handled("update", "organization", event, Null, fault,
                   update_organization_handler(event, tables["organization"], now, fault))

CreateUser ==
    /\ Addressed("user")
    /\ \E event \in CreateEvents("user"), uuid \in Uuids :
         \E fault \in FaultsFor("user", event) :
           Handled("create", "user", event, uuid, fault,
                   create_user_handler(event, tables["user"], uuid, now, fault))

UpdateUser ==
    /\ Addressed("user")
    /\ \E event \in UpdateEvents("user") :
         \E fault \in FaultsFor("user", event) :
           Handled("update", "user", event, Null, fault,
                   update_user_handler(event, tables["user"], now, fault))

CreateDevice ==
    /\ Addressed("device")
    /\ \E event \in CreateEvents("device"), uuid \in Uuids :
         \E fault \in FaultsFor("device", event) :
           Handled("create", "device", event, uuid, fault,
                   create_device_handler(event, tables["device"], uuid, now, fault))

UpdateDevice ==
    /\ Addressed("device")
    /\ \E event \in UpdateEvents("device") :
         \E fault \in FaultsFor("device", event) :
           Handled("update", "device", event, Null, fault,
                   update_device_handler(event, tables["device"], now, fault))

CreateContent ==
    /\ Addressed("content")
    /\ \E event \in CreateEvents("content"), uuid \in Uuids :
         \E fault \in FaultsFor("content", event) :
           Handled("create", "content", event, uuid, fault,
                   create_content_handler(event, tables["content"], uuid, now, fault))

UpdateContent ==
    /\ Addressed("content")
    /\ \E event \in UpdateEvents("content") :
         \E fault \in FaultsFor("content", event) :
           Handled("update", "content", event, Null, fault,
                   update_content_handler(event, tables["content"], now, fault))

CreateSchedule ==
    /\ Addressed("schedule")
    /\ \E event \in CreateEvents("schedule"), uuid \in Uuids :
         \E fault \in FaultsFor("schedule", event) :
           Handled("create", "schedule", event, uuid, fault,
                   create_schedule_handler(event, tables["schedule"], uuid, now, fault))

UpdateSchedule ==
    /\ Addressed("schedule")
    /\ \E event \in UpdateEvents("schedule") :
         \E fault \in FaultsFor("schedule", event) :
           Handled("update", "schedule", event, Null, fault,
                   update_schedule_handler(event, tables["schedule"], now, fault))

Next ==
    \/ Tick
    \/ CreateOrganization
    \/ UpdateOrganization
    \/ CreateUser
    \/ UpdateUser
    \/ CreateDevice
    \/ UpdateDevice
    \/ CreateContent
    \/ UpdateContent
    \/ CreateSchedule
    \/ UpdateSchedule

Spec == Init /\ [][Next]_vars

\* ------------------------------------------------------------------------
\* The handlers by resource, and what the last request asked
\* ------------------------------------------------------------------------
allowed_fields(res) ==
    CASE res = "organization" -> organization_allowed_fields
      [] res = "user" -> user_allowed_fields
      [] res = "device" -> device_allowed_fields
      [] res = "content" -> content_allowed_fields
      [] res = "schedule" -> schedule_allowed_fields

array_fields(res) ==
    CASE res = "device" -> device_array_fields
      [] res = "content" -> content_array_fields
      [] res = "schedule" -> schedule_array_fields
      [] OTHER -> {}

required_fields(res) ==
    CASE res = "organization" -> REQUIRED_ORGANIZATION_FIELDS
      [] res = "user" -> REQUIRED_USER_FIELDS
      [] res = "device" -> REQUIRED_DEVICE_FIELDS
      [] res = "content" -> REQUIRED_CONTENT_FIELDS
      [] res = "schedule" -> REQUIRED_SCHEDULE_FIELDS

\* prepare_update_data of the helpers of res
prepare_update_data(res, body) ==
    CASE res = "organization" -> organization_prepare_update_data(body)
      [] res = "user" -> user_prepare_update_data(body)
      [] res = "device" -> device_prepare_update_data(body)
      [] res = "content" -> content_prepare_update_data(body)
      [] res = "schedule" -> schedule_prepare_update_data(body)

\* what the create handler of res answers a body before it reaches the
\* store: 0 when the body passes
create_validation(res, body) ==
    IF validate_required_fields(required_fields(res), body) # 0 THEN 400
    ELSE CASE res = "user" -> create_user_validation(body)
           [] res = "schedule" -> create_schedule_validation(body)
           [] res = "device" -> IF convert_storage_values(body).ok THEN 0 ELSE 500
           [] OTHER -> 0

\* what the update handler of res answers a body before it prepares the
\* update: 0 when the body passes
update_validation(res, body) ==
    CASE res = "user" -> update_user_validation(body)
      [] res = "schedule" -> update_schedule_validation(body)
      [] res = "device" -> IF convert_storage_values(body).ok THEN 0 ELSE 500
      [] OTHER -> 0

\* the attribute the update of res stamps with the time of the write
UpdateTimestamp(res) == IF res = "device" THEN "last_updated" ELSE "updated_at"

LastParsed == parse_request_body(last.event).err = 0
LastBody == parse_request_body(last.event).body
LastId == path_id(last.event)

\* the last request was an update that reached update_*_in_db, and no call
\* of the store failed for a reason of the service
LastUpdateApplied ==
    /\ last.op = "update"
    /\ last.fault = "none"
    /\ Truthy(LastId)
    /\ LastParsed
    /\ DOMAIN LastBody # {}
    /\ update_validation(last.res, LastBody) = 0
    /\ DOMAIN prepare_update_data(last.res, LastBody) # {}

\* the last request was a create that reached save_*_to_db, and no call of
\* the store failed for a reason of the service
LastCreateSaved ==
    /\ last.op = "create"
    /\ last.fault = "none"
    /\ LastParsed
    /\ create_validation(last.res, LastBody) = 0

\* ------------------------------------------------------------------------
\* Properties of the handlers run one at a time
\* ------------------------------------------------------------------------
\* C1: for every resource, an update that reaches the store for an id the
\* store holds no record of is answered 404 and leaves the store unchanged,
\* whatever the non-empty update set, an organization's license included.
C1_UpdateOfMissingIdIsNotFound ==
    (LastUpdateApplied /\ LastId \notin DOMAIN before[last.res])
        => (last.status = 404 /\ tables = before)

\* an organization update of a missing id is answered 409: the license it
\* sets is held by another organization
C1_MissingOrganizationAnswered409 ==
    /\ LastUpdateApplied
    /\ last.res = "organization"
    /\ LastId \notin DOMAIN before["organization"]
    /\ "license" \in DOMAIN LastBody
    /\ last.status = 409
    /\ tables = before

C3_SequentialCreatesKeepEmailsUnique ==
    /\ \A j, k \in DOMAIN tables["user"] :
         j # k => tables["user"][j]["email"] # tables["user"][k]["email"]
    /\ (LastCreateSaved /\ last.res = "user") =>
         IF \E k \in DOMAIN before["user"] :
                before["user"][k]["email"] = Str(Lower(LastBody["email"].v))
         THEN last.status = 409 /\ tables = before
         ELSE last.uuid \notin DOMAIN before["user"] =>
                /\ last.status = 201
                /\ DOMAIN tables["user"] = DOMAIN before["user"] \cup {last.uuid}
                /\ tables["user"][last.uuid]["email"] = Str(Lower(LastBody["email"].v))
                /\ \A k \in DOMAIN before["user"] : tables["user"][k] = before["user"][k]

\* a create-user whose email differs from a stored one in case only was
\* answered 409
C3_DuplicateEmailRejected ==
    /\ LastCreateSaved
    /\ last.res = "user"
    /\ last.status = 409
    /\ LastBody["email"] = MailAUpper
    /\ \E k \in DOMAIN before["user"] : before["user"][k]["email"] = MailA
    /\ last.uuid \notin DOMAIN before["user"]

\* C4: a create-organization whose license is that of a stored organization
\* is answered 409 and leaves the store unchanged.
C4_DuplicateLicenseRejected ==
    (/\ LastCreateSaved
     /\ last.res = "organization"
     /\ \E k \in DOMAIN before["organization"] :
          before["organization"][k]["license"] = LastBody["license"])
        => (last.status = 409 /\ tables = before)

\* a create-organization with a free id carried the license of a stored one
C4_SecondLicenseHolder ==
    /\ LastCreateSaved
    /\ last.res = "organization"
    /\ last.uuid \notin DOMAIN before["organization"]
    /\ \E k \in DOMAIN before["organization"] :
         before["organization"][k]["license"] = LastBody["license"]
    /\ last.status = 409

\* C7: for every resource, a create whose generated id is that of a stored
\* record is answered 409 and leaves the stored record as it was.
C7_IdCollisionIsConflict ==
    (LastCreateSaved /\ last.uuid \in DOMAIN before[last.res])
        => (last.status = 409 /\ tables = before)

\* a create-user whose id collided was answered 500
C7_UserIdCollisionAnswered500 ==
    /\ LastCreateSaved
    /\ last.res = "user"
    /\ last.uuid \in DOMAIN before["user"]
    /\ last.status = 500
    /\ tables = before

\* C8: an update whose body holds no field of the allow-list of its resource
\* (the empty body included) yields an empty update set, is answered 400 and
\* writes nothing.
C8_NothingToUpdateIsRejected ==
    (/\ last.op = "update"
     /\ LastParsed
     /\ DOMAIN LastBody \cap allowed_fields(last.res) = {})
        => /\ DOMAIN prepare_update_data(last.res, LastBody) = {}
           /\ last.status = 400
           /\ tables = before

\* an update of a stored record carried only fields outside the allow-list
C8_OnlyForeignFields ==
    /\ last.op = "update"
    /\ LastParsed
    /\ DOMAIN LastBody # {}
    /\ DOMAIN LastBody \cap allowed_fields(last.res) = {}
    /\ LastId \in DOMAIN before[last.res]
    /\ last.status = 400

\* C10: every array field of every stored record holds a list, whatever the
\* request carried for it.
C10_ArrayFieldsHoldLists ==
    \A res \in Resources : \A k \in DOMAIN tables[res] :
        \A f \in array_fields(res) \cap DOMAIN tables[res][k] : IsList(tables[res][k][f])

\* a device was stored with the number 5 as its playlists
C10_NumberStoredAsPlaylists ==
    \E k \in DOMAIN tables["device"] : tables["device"][k]["playlists"] = Num(5)

\* ------------------------------------------------------------------------
\* prepare_update_data applied to the bodies over a set of keys
\* ------------------------------------------------------------------------
PrepareKeys ==
    {"name", "email", "password", "playlists", "storage_left", "start_at",
     "id", "created_at", "updated_at"}

\* what a body may carry under a key
PrepareValues(k) ==
    CASE k = "playlists" -> {JsonArrayText, Num(7)}
      [] k = "storage_left" -> {Null, Num(5)}
      [] k = "email" -> {MailC}
      [] k = "password" -> {Pass1}
      [] k = "start_at" -> {IsoFormat(3)}
      [] OTHER -> {sY}

RECURSIVE BodiesOver(_)
\* the bodies whose keys are among keys
BodiesOver(keys) ==
    IF keys = {} THEN {EmptyMap}
    ELSE LET k == CHOOSE x \in keys : TRUE
             rest == BodiesOver(keys \ {k})
         IN rest \cup {Put(b, k, v) : b \in rest, v \in PrepareValues(k)}

InitPrepare ==
    /\ tables = [r \in Resources |-> EmptyTable]
    /\ now = 0
    /\ nreq = 0
    /\ before = [r \in Resources |-> EmptyTable]
    /\ procs = [p \in Procs |-> Idle]
    /\ last \in {[NoRequest EXCEPT !.op = "prepare", !.res = r, !.event = [body |-> Dict(b)]] :
                   r \in Resources, b \in BodiesOver(PrepareKeys)}

\* update_data = prepare_update_data(body)
Prepare ==
    /\ last.op = "prepare"
    /\ last' = [last EXCEPT !.op = "prepared",
                            !.data = prepare_update_data(last.res, last.event["body"].v)]
    /\ UNCHANGED <<tables, now, nreq, before, procs>>

NextPrepare == Prepare

SpecPrepare == InitPrepare /\ [][NextPrepare]_vars

\* C9: for every body and every resource, the keys of the update set
\* prepare_update_data returns are keys of the allow-list of the resource
\* that the body carries.
C9_UpdateSetWithinAllowListAndBody ==
    last.op = "prepared" =>
        DOMAIN last.data \subseteq
            allowed_fields(last.res) \cap DOMAIN last.event["body"].v

\* a device body with a name, an id, a null storage_left and no array was
\* prepared: the update set holds the name alone
C9_ForeignAndNullKeysDropped ==
    /\ last.op = "prepared"
    /\ last.res = "device"
    /\ DOMAIN last.event["body"].v = {"name", "id", "storage_left"}
    /\ last.event["body"].v["storage_left"] = Null
    /\ DOMAIN last.data = {"name"}

\* ------------------------------------------------------------------------
\* Handlers run at the same time: every call of the store is a step of its
\* own, and the steps of two invocations interleave
\* ------------------------------------------------------------------------
\* create_*_data of the helpers of res
create_data(res, body, uuid, at) ==
    CASE res = "organization" -> create_organization_data(body, uuid, at)
      [] res = "user" -> create_user_data(body, uuid, at)
      [] res = "device" -> create_device_data(body, uuid, at)
      [] res = "content" -> create_content_data(body, uuid, at)
      [] res = "schedule" -> create_schedule_data(body, uuid, at)

\* the resources whose save_*_to_db scans for a value before it inserts
ScannedResources == {"organization", "user"}

\* the scan of save_*_to_db
unique_scan(res, T, data) ==
    CASE res = "organization" -> organization_license_scan(T, data)
      [] res = "user" -> user_email_scan(T, data)
      [] OTHER -> {}

\* save_*_to_db from its put_item on, the scan having returned no item
save_after_scan(res, T, data) ==
    CASE res = "organization" -> save_organization_after_scan(T, data, {}, "none")
      [] res = "user" -> save_user_after_scan(T, data, {}, "none")
      [] res = "device" -> save_device_to_db(T, data, "none")
      [] res = "content" -> save_content_to_db(T, data, "none")
      [] res = "schedule" -> save_schedule_to_db(T, data, "none")

\* the check update_*_in_db makes before it builds its expression
unique_check(res, T, id, update_data) ==
    CASE res = "organization" -> organization_license_check(T, id, update_data, "none")
      [] res = "user" -> user_email_check(T, id, update_data, "none")
      [] OTHER -> 0

\* whether update_*_in_db asks the store before it builds its expression
ChecksFirst(res, update_data) ==
    \/ res = "organization" /\ "license" \in DOMAIN update_data
    \/ res = "user" /\ "email" \in DOMAIN update_data

\* the update_item call of update_*_in_db, with the time read before it
update_write(res, T, id, update_data, at) ==
    CASE res = "organization" -> organization_update_write(T, id, update_data, at, "none")
      [] res = "user" -> user_update_write(T, id, update_data, at, "none")
      [] res = "device" -> update_device_in_db(T, id, update_data, at, "none")
      [] res = "content" -> update_content_in_db(T, id, update_data, at, "none")
      [] res = "schedule" -> update_schedule_in_db(T, id, update_data, at, "none")

\* the bodies the concurrent requests carry
BaseBody(res) ==
    CASE res = "organization" -> OrganizationBase
      [] res = "user" -> UserBase
      [] res = "device" -> DeviceBase
      [] res = "content" -> ContentBase
      [] res = "schedule" -> ScheduleBase

ConcCreateBodies(res) ==
    IF res = "user" THEN {Put(UserBase, "email", MailAUpper)} ELSE {BaseBody(res)}

ConcUpdateBodies(res) ==
    CASE res = "organization" -> {[name |-> sY], [updated_by |-> sX], [name |-> Lic2],
                                  [license |-> Lic2]}
      [] res = "user" -> {[first_name |-> sY], [last_name |-> sX], [first_name |-> Lic2],
                          [email |-> MailC]}
      [] res = "device" -> {[name |-> sY], [status |-> Inactive], [name |-> Lic2]}
      [] res = "content" -> {[title |-> sX], [description |-> sY], [title |-> Lic2]}
      [] res = "schedule" -> {[loop |-> Bool(TRUE)], [is_active |-> Bool(FALSE)],
                              [loop |-> Bool(FALSE)]}

\* the record an earlier create left in the table of res
SeedId == Str(<<"u", "1">>)
Seeded(res) == save_after_scan(res, EmptyTable, create_data(res, BaseBody(res), SeedId, 0)).table

\* the concurrent invocations start on empty tables, or on the table of one
\* resource holding the record of an earlier create
InitConc ==
    /\ tables \in {[r \in Resources |-> EmptyTable]}
                    \cup {[r \in Resources |-> IF r = res THEN Seeded(res) ELSE EmptyTable] :
                            res \in Resources}
    /\ now = 0
    /\ nreq = 0
    /\ last = NoRequest
    /\ before = tables
    /\ procs = [p \in Procs |-> Idle]

\* one run sends its requests to one resource
ConcAddressed(res) ==
    /\ \A q \in Procs : procs[q].res \in {"none", res}
    /\ \A r \in Resources \ {res} : tables[r] = EmptyTable

\* the invocation after the create handler validated the body and built the item
received_create(res, body, uuid, at) ==
    IF create_validation(res, body) # 0
    THEN [Idle EXCEPT !.pc = "done", !.op = "create", !.res = res, !.id = uuid,
                      !.status = create_validation(res, body)]
    ELSE [Idle EXCEPT !.pc = IF res \in ScannedResources THEN "scan" ELSE "put",
                      !.op = "create", !.res = res, !.id = uuid, !.at = at,
                      !.data = create_data(res, body, uuid, at)]

\* the invocation after the update handler validated the body and prepared update_data
received_update(res, id, body, update_data) ==
    IF update_validation(res, body) # 0
    THEN [Idle EXCEPT !.pc = "done", !.op = "update", !.res = res, !.id = id,
                      !.status = update_validation(res, body)]
    ELSE IF DOMAIN update_data = {}
    THEN [Idle EXCEPT !.pc = "done", !.op = "update", !.res = res, !.id = id, !.status = 400]
    ELSE [Idle EXCEPT !.pc = IF ChecksFirst(res, update_data) THEN "check" ELSE "clock",
                      !.op = "update", !.res = res, !.id = id, !.data = update_data]

\* the invocation after the scan of save_*_to_db returned items
scanned(proc, items) ==
    IF items # {} THEN [proc EXCEPT !.pc = "done", !.status = 409]
    ELSE [proc EXCEPT !.pc = "put"]

\* the invocation after save_*_to_db returned s
saved(proc, s) ==
    [proc EXCEPT !.pc = "done", !.status = IF s.status # 0 THEN s.status ELSE 201,
                 !.wrote = (s.status = 0)]

\* the invocation after the check of update_*_in_db answered status
checked(proc, status) ==
    IF status # 0 THEN [proc EXCEPT !.pc = "done", !.status = status]
    ELSE [proc EXCEPT !.pc = "clock"]

\* the invocation after the update_item call of update_*_in_db returned u
written(proc, u) ==
    IF u.status # 0 THEN [proc EXCEPT !.pc = "done", !.status = u.status]
    ELSE [proc EXCEPT !.pc = "read", !.wrote = TRUE]

\* the invocation after get_*_by_id_from_db returned g
read_back(proc, g) ==
    [proc EXCEPT !.pc = "done", !.status = IF g.err # 0 THEN g.err ELSE 200,
                 !.item = g.item]

\* create handler: parse, validate, create_*_data (which reads the clock)
ReceiveCreate(p) ==
    /\ procs[p].pc = "idle"
    /\ \E res \in Resources : \E body \in ConcCreateBodies(res), uuid \in Uuids :
         /\ ConcAddressed(res)
         /\ procs' = [procs EXCEPT ![p] = received_create(res, body, uuid, now)]
    /\ UNCHANGED <<tables, now, nreq, last, before>>

\* save_*_to_db: the scan for the unique value
ScanTable(p) ==
    /\ procs[p].pc = "scan"
    /\ procs' = [procs EXCEPT ![p] =
                    scanned(procs[p], unique_scan(procs[p].res, tables[procs[p].res],
                                                  procs[p].data))]
    /\ UNCHANGED <<tables, now, nreq, last, before>>

\* the store answers r to the conditional write of invocation p on the table
\* of res; last tells whose write the store applied last
Applied(p, res, r) ==
    /\ tables' = [tables EXCEPT ![res] = r.table]
    /\ last' = IF r.status # 0 THEN last
               ELSE [NoRequest EXCEPT !.op = "write", !.res = res, !.uuid = procs[p].id,
                                      !.by = p]

\* save_*_to_db: the conditional put_item
PutItem(p) ==
    /\ procs[p].pc = "put"
    /\ procs' = [procs EXCEPT ![p] =
                    saved(procs[p], save_after_scan(procs[p].res, tables[procs[p].res],
                                                    procs[p].data))]
    /\ Applied(p, procs[p].res,
               save_after_scan(procs[p].res, tables[procs[p].res], procs[p].data))
    /\ UNCHANGED <<now, nreq, before>>

\* update handler: path id, parse, validate, prepare_update_data
ReceiveUpdate(p) ==
    /\ procs[p].pc = "idle"
    /\ \E res \in Resources : \E body \in ConcUpdateBodies(res), id \in Uuids :
         /\ ConcAddressed(res)
         /\ procs' = [procs EXCEPT ![p] =
                         received_update(res, id, body, prepare_update_data(res, body))]
    /\ UNCHANGED <<tables, now, nreq, last, before>>

\* update_*_in_db: the scan or query for the unique value the update sets
CheckUnique(p) ==
    /\ procs[p].pc = "check"
    /\ procs' = [procs EXCEPT ![p] =
                    checked(procs[p], unique_check(procs[p].res, tables[procs[p].res],
                                                   procs[p].id, procs[p].data))]
    /\ UNCHANGED <<tables, now, nreq, last, before>>

\* update_*_in_db: current_time = datetime.now().isoformat()
ReadClock(p) ==
    /\ procs[p].pc = "clock"
    /\ procs' = [procs EXCEPT ![p] = [procs[p] EXCEPT !.pc = "write", !.at = now]]
    /\ UNCHANGED <<tables, now, nreq, last, before>>

\* update_*_in_db: the conditional update_item
UpdateItem(p) ==
    /\ procs[p].pc = "write"
    /\ procs' = [procs EXCEPT ![p] =
                    written(procs[p], update_write(procs[p].res, tables[procs[p].res],
                                                   procs[p].id, procs[p].data, procs[p].at))]
    /\ Applied(p, procs[p].res,
               update_write(procs[p].res, tables[procs[p].res], procs[p].id,
                            procs[p].data, procs[p].at))
    /\ UNCHANGED <<now, nreq, before>>

\* update handler: get_*_by_id_from_db for the response
ReadBack(p) ==
    /\ procs[p].pc = "read"
    /\ procs' = [procs EXCEPT ![p] =
                    read_back(procs[p], get_by_id_from_db(tables[procs[p].res],
                                                          procs[p].id, "none"))]
    /\ UNCHANGED <<tables, now, nreq, last, before>>

NextConc ==
    \/ Tick
    \/ \E p \in Procs : ReceiveCreate(p)
    \/ \E p \in Procs : ScanTable(p)
    \/ \E p \in Procs : PutItem(p)
    \/ \E p \in Procs : ReceiveUpdate(p)
    \/ \E p \in Procs : CheckUnique(p)
    \/ \E p \in Procs : ReadClock(p)
    \/ \E p \in Procs : UpdateItem(p)
    \/ \E p \in Procs : ReadBack(p)

SpecConc == InitConc /\ [][NextConc]_vars

\* the unique value of an item of a resource that scans before it inserts
UniqueField(res) == IF res = "user" THEN "email" ELSE "license"

\* C5: the insert of a create-user or create-organization asks for nothing
\* but a free id: once its scan has returned no item, its put_item inserts
\* the record and the create is answered 201, even when by then another
\* create has inserted a record with the same email or license.
C5_InsertAfterScanAsksOnlyForFreeId ==
    [][\A p \in Procs :
         (/\ procs[p].pc = "put"
          /\ procs'[p].pc = "done"
          /\ procs[p].res \in ScannedResources
          /\ procs[p].id \notin DOMAIN tables[procs[p].res])
            => /\ procs'[p].status = 201
               /\ tables'[procs[p].res] =
                    (procs[p].id :> procs[p].data) @@ tables[procs[p].res]]_vars

\* two create-user invocations were both answered 201 and two user records
\* hold the same email
C5_TwoUsersShareEmail ==
    /\ \A p \in Procs :
         procs[p].op = "create" /\ procs[p].res = "user" /\ procs[p].status = 201
    /\ \E j, k \in DOMAIN tables["user"] :
         j # k /\ tables["user"][j]["email"] = tables["user"][k]["email"]

\* two create-organization invocations were both answered 201 and two
\* organization records hold the same license
C5_TwoOrganizationsShareLicense ==
    /\ \A p \in Procs :
         procs[p].op = "create" /\ procs[p].res = "organization" /\ procs[p].status = 201
    /\ \E j, k \in DOMAIN tables["organization"] :
         j # k /\ tables["organization"][j]["license"] = tables["organization"][k]["license"]

\* invocation p updates a stored record and asks the store nothing before it writes
UpdatesStored(p) ==
    /\ procs[p].op = "update"
    /\ procs[p].id \in DOMAIN before[procs[p].res]
    /\ DOMAIN procs[p].data # {}
    /\ ~ChecksFirst(procs[p].res, procs[p].data)

\* C6: two concurrent updates of one stored record both succeed; when the
\* store has applied both writes, every field of the later write holds its
\* value, every field only the earlier write sets holds the earlier value
\* (so with disjoint fields neither update is lost, and a field both set
\* holds the later value), and the update timestamp is the later write's.
C6_ConcurrentUpdatesLastWriteWins ==
    /\ \A p \in Procs :
         (UpdatesStored(p) /\ procs[p].pc \in {"read", "done"}) => procs[p].wrote
    /\ \A p \in Procs :
         (UpdatesStored(p) /\ procs[p].pc = "done") => procs[p].status = 200
    /\ \A p, q \in Procs :
         (/\ p # q
          /\ UpdatesStored(p) /\ UpdatesStored(q)
          /\ procs[p].id = procs[q].id
          /\ procs[p].wrote /\ procs[q].wrote
          /\ last.by = q)
            => LET record == tables[procs[q].res][procs[q].id]
               IN /\ \A f \in DOMAIN procs[q].data : record[f] = procs[q].data[f]
                  /\ \A f \in DOMAIN procs[p].data \ DOMAIN procs[q].data :
                       record[f] = procs[p].data[f]
                  /\ record[UpdateTimestamp(procs[q].res)] = IsoFormat(procs[q].at)

\* two updates of disjoint fields of one record were both answered 200; the
\* write applied last carries the earlier time
C6_DisjointUpdatesBothKept ==
    \E p, q \in Procs :
        /\ p # q
        /\ UpdatesStored(p) /\ UpdatesStored(q)
        /\ procs[p].id = procs[q].id
        /\ procs[p].status = 200 /\ procs[q].status = 200
        /\ DOMAIN procs[p].data \cap DOMAIN procs[q].data = {}
        /\ last.by = q
        /\ procs[q].at < procs[p].at

\* two updates of the same field of one record with different values were
\* both answered 200
C6_SameFieldUpdatedTwice ==
    \E p, q \in Procs :
        /\ p # q
        /\ UpdatesStored(p) /\ UpdatesStored(q)
        /\ procs[p].id = procs[q].id
        /\ procs[p].status = 200 /\ procs[q].status = 200
        /\ DOMAIN procs[p].data = DOMAIN procs[q].data
        /\ procs[p].data # procs[q].data
        /\ last.by = q

\* ------------------------------------------------------------------------
\* The handlers run one at a time on a table that holds a record already
\* ------------------------------------------------------------------------
\* the ids an earlier create may have drawn
SeedIds == {Str(<<"u", "0">>), Str(<<"u", "1">>)}

\* the table of res after a create at time 0 that drew id
SeededBy(res, id) == save_after_scan(res, EmptyTable, create_data(res, BaseBody(res), id, 0)).table

\* the users or the organizations table holds the record of one earlier
\* create, and the requests go to that table
InitSeeded ==
    /\ \E res \in ScannedResources, id \in SeedIds :
         /\ tables = [r \in Resources |-> IF r = res THEN SeededBy(res, id) ELSE EmptyTable]
         /\ last = [NoRequest EXCEPT !.res = res]
    /\ now = 0
    /\ nreq = 0
    /\ before = tables
    /\ procs = [p \in Procs |-> Idle]

NextSeeded ==
    \/ Tick
    \/ CreateOrganization
    \/ UpdateOrganization
    \/ CreateUser
    \/ UpdateUser

SpecSeeded == InitSeeded /\ [][NextSeeded]_vars

\* a create-user handled after all others were answered 201 although a user
\* record beyond the first page of the scan holds its email
C3_DuplicateEmailBeyondFirstPage ==
    /\ LastCreateSaved
    /\ last.res = "user"
    /\ last.status = 201
    /\ \E k \in DOMAIN before["user"] :
         /\ k \notin FirstPage(before["user"])
         /\ before["user"][k]["email"] = tables["user"][last.uuid]["email"]

\* a create-organization handled after all others was answered 201 although
\* an organization record beyond the first page of the scan holds its license
C4_DuplicateLicenseBeyondFirstPage ==
    /\ LastCreateSaved
    /\ last.res = "organization"
    /\ last.status = 201
    /\ \E k \in DOMAIN before["organization"] :
         /\ k \notin FirstPage(before["organization"])
         /\ before["organization"][k]["license"] = LastBody["license"]

\* ------------------------------------------------------------------------
\* parse_array_fields applied to the values a body may carry in an array field
\* ------------------------------------------------------------------------
\* the longest array a body carries
MaxArrayLen == 2

\* the decimal digits of n
RECURSIVE NumDigits(_)
NumDigits(n) == IF n < 10 THEN <<DigitChar(n)>> ELSE Append(NumDigits(n \div 10), DigitChar(n % 10))

\* json.dumps(x, separators=(sep, ":")) of a value without dicts: the text a
\* client sends for the value x
RECURSIVE JsonDumps(_, _)
RECURSIVE JsonDumpsItems(_, _, _)
JsonDumpsItems(xs, sep, i) ==
    IF i > Len(xs) THEN <<>>
    ELSE (IF i > 1 THEN sep ELSE <<>>) \o JsonDumps(xs[i], sep) \o JsonDumpsItems(xs, sep, i + 1)

JsonDumps(x, sep) ==
    CASE x.t = "null" -> <<"n", "u", "l", "l">>
      [] x.t = "bool" -> IF x.v THEN <<"t", "r", "u", "e">> ELSE <<"f", "a", "l", "s", "e">>
      [] x.t = "num" -> NumDigits(x.v)
      [] x.t = "str" -> <<"\"">> \o x.v \o <<"\"">>
      [] x.t = "list" -> <<"[">> \o JsonDumpsItems(x.v, sep, 1) \o <<"]">>

\* the item separators of json.dumps (", ") and of JSON.stringify (",")
Separators == {<<",">>, <<",", " ">>}

\* what an array holds
ArrayElements ==
    {Str(<<"a">>), Str(<<>>), Num(5), Num(12), Null, Bool(TRUE), List(<<Str(<<"b">>), Num(0)>>)}

\* the native arrays of at most MaxArrayLen elements
NativeArrays ==
    {List(xs) : xs \in UNION {[1..n -> ArrayElements] : n \in 0..MaxArrayLen}}

\* the texts of the native arrays
ArrayTexts == {Str(JsonDumps(x, sep)) : x \in NativeArrays, sep \in Separators}

\* texts json.loads raises json.JSONDecodeError for
InvalidJsonTexts ==
    {Str(<<>>), Str(<<"x", "]">>), Str(<<"[">>), Str(<<"]">>), Str(<<"[", "1", ",", "]">>),
     Str(<<"[", "\"", "a", "\"">>), Str(<<"[", "0", "1", "]">>), Str(<<"[", "1", " ", "2", "]">>),
     Str(<<"[", "]", "]">>), Str(<<"[", "a", "]">>), Str(<<" ">>)}

\* texts of JSON values that are no array, and native values that are none
OtherRawValues == {JsonNumberText, JsonObjectText, JsonStringText, Num(7), Bool(FALSE)}

\* a body that carries under the key f the value v, and one that lacks the key
ArrayBodies(f) ==
    {Put([name |-> sX], f, v) :
        v \in NativeArrays \cup ArrayTexts \cup InvalidJsonTexts \cup OtherRawValues \cup {Null}}
      \cup {[name |-> sX], EmptyMap}

\* parse_array_fields of the helpers of res
parse_array_fields_of(res, body) ==
    CASE res = "device" -> device_parse_array_fields(body)
      [] res = "content" -> content_parse_array_fields(body)
      [] res = "schedule" -> schedule_parse_array_fields(body)

InitArrays ==
    /\ tables = [r \in Resources |-> EmptyTable]
    /\ now = 0
    /\ nreq = 0
    /\ before = [r \in Resources |-> EmptyTable]
    /\ procs = [p \in Procs |-> Idle]
    /\ \E r \in {"device", "content", "schedule"} :
         \E f \in array_fields(r) :
           \E b \in ArrayBodies(f) :
             last = [NoRequest EXCEPT !.op = "parse", !.res = r, !.by = f,
                                      !.event = [body |-> Dict(b)]]

\* parsed = parse_array_fields(body)
ParseArrays ==
    /\ last.op = "parse"
    /\ last' = [last EXCEPT !.op = "parsed",
                            !.data = parse_array_fields_of(last.res, last.event["body"].v)]
    /\ UNCHANGED <<tables, now, nreq, before, procs>>

NextArrays == ParseArrays

SpecArrays == InitArrays /\ [][NextArrays]_vars

\* the raw value the body of the last call carries in the field it is about
RawValue == Get(last.event["body"].v, last.by)

\* C11: for every declared array field, a raw value that is the text of a
\* JSON array comes back as that array, same elements in the same order, and
\* a raw value that is a native sequence comes back unchanged.
C11_ArrayTextParsedNativeKept ==
    last.op = "parsed" =>
        /\ \A x \in NativeArrays, sep \in Separators :
              RawValue = Str(JsonDumps(x, sep)) => last.data[last.by] = x
        /\ IsList(RawValue) => last.data[last.by] = RawValue

\* the text "[\"a\", 12]" was parsed into the array of the str a and the
\* number 12
C11_TextOfTwoElementsParsed ==
    /\ last.op = "parsed"
    /\ RawValue = Str(<<"[", "\"", "a", "\"", ",", " ", "1", "2", "]">>)
    /\ last.data[last.by] = List(<<Str(<<"a">>), Num(12)>>)

\* C12: a raw value that is a text json.loads rejects, that is null, or whose
\* key the body lacks, comes back as the empty sequence, and the result has
\* the declared array fields of the resource as its keys, no more and no less.
C12_UnusableValueIsEmptyAndKeysAreDeclared ==
    last.op = "parsed" =>
        /\ DOMAIN last.data = array_fields(last.res)
        /\ (RawValue \in InvalidJsonTexts
              \/ RawValue = Null
              \/ last.by \notin DOMAIN last.event["body"].v)
             => last.data[last.by] = List(<<>>)
        /\ \A g \in array_fields(last.res) \ DOMAIN last.event["body"].v :
              last.data[g] = List(<<>>)

\* the text "[1,]" came back as the empty sequence
C12_InvalidTextIsEmpty ==
    /\ last.op = "parsed"
    /\ RawValue = Str(<<"[", "1", ",", "]">>)
    /\ last.data[last.by] = List(<<>>)

\* ------------------------------------------------------------------------
\* Properties of the answers and of the timestamps
\* ------------------------------------------------------------------------
\* the unique attribute of a resource that has one
UniqueAttribute(res) == IF res = "user" THEN "email" ELSE "license"

\* the value the last request asks to store under the unique attribute
LastUniqueValue ==
    IF last.res = "user" /\ IsStr(Get(LastBody, "email"))
    THEN Str(Lower(Get(LastBody, "email").v))
    ELSE Get(LastBody, UniqueAttribute(last.res))

\* the last request asks for a unique value that a record other than the one
\* it addresses held, or is a create whose generated id was taken
LastIsDuplicate ==
    \/ /\ last.res \in ScannedResources
       /\ LastUniqueValue # Null
       /\ \E k \in DOMAIN before[last.res] :
             /\ (last.op = "update" => k # LastId)
             /\ Get(before[last.res][k], UniqueAttribute(last.res)) = LastUniqueValue
    \/ last.op = "create" /\ last.uuid \in DOMAIN before[last.res]

\* C13: a create or an update is answered 409 only when it duplicates a
\* unique value or an id, 404 only when the record to update does not exist,
\* and a write the store fails for another reason is answered 500.
C13_StatusTellsTheCause ==
    last.op \in {"create", "update"} =>
        /\ last.status = 409 => LastIsDuplicate
        /\ last.status = 404 => last.op = "update" /\ LastId \notin DOMAIN before[last.res]
        /\ (last.op = "create" /\ last.fault = "write" /\ LastParsed
               /\ create_validation(last.res, LastBody) = 0 /\ ~LastIsDuplicate)
             => last.status = 500

\* the store failed the put_item of a device whose id was free, and the
\* create was answered 409
C13_FailedDeviceWriteAnswered409 ==
    /\ last.op = "create"
    /\ last.res = "device"
    /\ last.fault = "write"
    /\ last.uuid \notin DOMAIN before["device"]
    /\ last.status = 409
    /\ tables = before

\* the clock reading an ISO-8601 text of the model stands for
TimeOf(x) == FromIsoFormat(x.v).time

\* C14: a successful update of a record of any resource, devices included,
\* sets the record's updated_at to the time of the update, which is strictly
\* later than the updated_at the record had.
C14_UpdateAdvancesUpdatedAt ==
    (last.op = "update" /\ last.status = 200) =>
        LET old == before[last.res][LastId]
            new == tables[last.res][LastId]
        IN /\ "updated_at" \in DOMAIN new
           /\ new["updated_at"] = IsoFormat(last.at)
           /\ "updated_at" \in DOMAIN old => TimeOf(new["updated_at"]) > TimeOf(old["updated_at"])

\* a device was updated with success at a later tick than its creation, and
\* its record has no updated_at: the time is in last_updated
C14_DeviceUpdatedWithoutUpdatedAt ==
    /\ last.op = "update"
    /\ last.res = "device"
    /\ last.status = 200
    /\ "updated_at" \notin DOMAIN tables["device"][LastId]
    /\ tables["device"][LastId]["last_updated"] = IsoFormat(last.at)
    /\ TimeOf(before["device"][LastId]["last_updated"]) < last.at

\* the attributes a record is created with and no update may change
CreationAttributes == {"id", "created_at", "created_by"}

\* C15: whatever a request carries in its body, the keys id, created_at and
\* created_by included, it leaves the id, created_at and created_by of every
\* stored record as they were: after any sequence of requests they are the
\* values the record was created with.
C15_CreationAttributesNeverChange ==
    [][\A res \in Resources : \A k \in DOMAIN tables[res] :
          /\ k \in DOMAIN tables'[res]
          /\ \A f \in CreationAttributes :
                /\ f \in DOMAIN tables'[res][k] <=> f \in DOMAIN tables[res][k]
                /\ f \in DOMAIN tables[res][k] => tables'[res][k][f] = tables[res][k][f]]_vars

\* an update whose body carries another id, created_at and created_by beside
\* a new name was answered 200, and the record kept the three
C15_UpdateWithCreationKeysApplied ==
    /\ last.op = "update"
    /\ last.status = 200
    /\ CreationAttributes \subseteq DOMAIN LastBody
    /\ LastBody["id"] # LastId
    /\ \E f \in DOMAIN LastBody \ CreationAttributes :
          tables[last.res][LastId][f] # before[last.res][LastId][f]
    /\ \A f \in CreationAttributes \cap DOMAIN before[last.res][LastId] :
          /\ tables[last.res][LastId][f] = before[last.res][LastId][f]
          /\ tables[last.res][LastId][f] # LastBody[f]

\* C16: the record a create of any resource writes carries the id generated
\* for it, which no stored record had, and a created_at and an updated_at
\* that both hold the time of the create.
C16_CreatedRecordIsStamped ==
    (last.op = "create" /\ last.status = 201) =>
        /\ last.uuid \notin DOMAIN before[last.res]
        /\ last.uuid \in DOMAIN tables[last.res]
        /\ LET item == tables[last.res][last.uuid]
           IN /\ item["id"] = last.uuid
              /\ {"created_at", "updated_at"} \subseteq DOMAIN item
              /\ item["created_at"] = IsoFormat(last.at)
              /\ item["updated_at"] = item["created_at"]

\* a device was created with 201 and its record, stamped with last_seen and
\* last_updated, has neither created_at nor updated_at
C16_DeviceCreatedWithoutCreatedAt ==
    /\ last.op = "create"
    /\ last.res = "device"
    /\ last.status = 201
    /\ DOMAIN tables["device"][last.uuid] \cap {"created_at", "updated_at"} = {}
    /\ tables["device"][last.uuid]["last_seen"] = IsoFormat(last.at)
    /\ tables["device"][last.uuid]["last_updated"] = IsoFormat(last.at)

\* get_device_by_id.handler once the id of the path is read
get_device_by_id(device_id, T, fault) ==
    IF ~Truthy(device_id) THEN Resp(400, T, EmptyMap)
    ELSE IF get_by_id_from_db(T, device_id, fault).err # 0
    THEN Resp(get_by_id_from_db(T, device_id, fault).err, T, EmptyMap)
    ELSE Resp(200, T, format_response_device(get_by_id_from_db(T, device_id, fault).item))

get_device_handler(event, T, fault) == get_device_by_id(path_id(event), T, fault)

\* the event of a get of the record id
GetEvent(id) == [pathParameters |-> Dict([id |-> id])]

Active == Str(<<"a", "c", "t", "i", "v", "e">>)

\* C17: a create-device whose body holds a name and an organization_id and
\* nothing else is answered 201 and stores a record with the generated id,
\* empty playlists, applications and contents and the status "active"; an
\* update of a stored device with the body {"status": "inactive"} is answered
\* 200, and a get of the device then returns the status "inactive".
C17_MinimalDeviceDefaultsThenInactive ==
    /\ (/\ last.op = "create" /\ last.res = "device" /\ last.fault = "none"
        /\ LastParsed
        /\ DOMAIN LastBody = {"name", "organization_id"}
        /\ Truthy(LastBody["name"]) /\ Truthy(LastBody["organization_id"])
        /\ last.uuid \notin DOMAIN before["device"])
       => /\ last.status = 201
          /\ last.uuid \in DOMAIN tables["device"]
          /\ LET item == tables["device"][last.uuid]
             IN /\ item["id"] = last.uuid
                /\ item["playlists"] = List(<<>>)
                /\ item["applications"] = List(<<>>)
                /\ item["contents"] = List(<<>>)
                /\ item["status"] = Active
                /\ get_device_handler(GetEvent(last.uuid), tables["device"], "none").status = 200
                /\ get_device_handler(GetEvent(last.uuid), tables["device"], "none").data["status"]
                     = Active
    /\ (/\ last.op = "update" /\ last.res = "device" /\ last.fault = "none"
        /\ LastParsed
        /\ LastBody = [status |-> Inactive]
        /\ LastId \in DOMAIN before["device"])
       => /\ last.status = 200
          /\ last.data["status"] = Inactive
          /\ tables["device"][LastId]["status"] = Inactive
          /\ get_device_handler(GetEvent(LastId), tables["device"], "none").status = 200
          /\ get_device_handler(GetEvent(LastId), tables["device"], "none").data["status"]
               = Inactive

\* a device created from a name and an organization_id alone, active and
\* without playlists, was updated to inactive
C17_DefaultDeviceMadeInactive ==
    /\ last.op = "update"
    /\ last.res = "device"
    /\ last.status = 200
    /\ LastBody = [status |-> Inactive]
    /\ before["device"][LastId]["status"] = Active
    /\ before["device"][LastId]["playlists"] = List(<<>>)
    /\ before["device"][LastId]["description"] = Null
    /\ tables["device"][LastId]["status"] = Inactive

\* the body of the last request is a JSON object, sent as a dict
LastBodyIsObject == "body" \in DOMAIN last.event /\ last.event["body"].t = "dict"

\* the body of the last request is missing, no JSON, or no JSON object
LastBodyIsBad ==
    \/ "body" \notin DOMAIN last.event
    \/ last.event["body"] \in
         {Null, Num(7), Str(<<"x">>), Str(<<"{">>), Str(<<"[", "1", ",", "]">>),
          Str(<<"{", "\"", "a", "\"", "}">>), Str(<<"[", "]">>), JsonNumberText}

\* the body of the last request lacks a required field of its resource, or
\* holds an empty value for one
LastLacksRequired ==
    \/ last.event["body"] = Str(<<"{", "}">>)
    \/ /\ LastBodyIsObject
       /\ \E i \in 1..Len(required_fields(last.res)) :
             LET f == required_fields(last.res)[i]
                 b == last.event["body"].v
             IN f \notin DOMAIN b \/ b[f] \in {Null, Str(<<>>)}

\* C18: a create whose body is missing, is no JSON, is no JSON object, or
\* lacks a required field or holds an empty one, is answered 400 and leaves
\* the store unchanged.
C18_BadCreateIsRejected ==
    (last.op = "create" /\ (LastBodyIsBad \/ LastLacksRequired)) =>
        /\ last.status = 400
        /\ tables = before

\* a create-organization whose name is the empty string was answered 400 on
\* a table that holds an organization
C18_EmptyNameRejected ==
    /\ last.op = "create"
    /\ last.res = "organization"
    /\ LastBodyIsObject
    /\ DOMAIN last.event["body"].v = {"name", "license"}
    /\ last.event["body"].v["name"] = Str(<<>>)
    /\ last.status = 400
    /\ DOMAIN before["organization"] # {}
    /\ tables = before

\* C19: with requests handled one at a time no two organization records
\* share a license; an update that sets a license another organization holds
\* is answered 409 and changes nothing; an update that sets the license the
\* organization already has is accepted.
C19_LicensesStayUnique ==
    LET T == tables["organization"]
        old == before["organization"]
    IN /\ \A k1, k2 \in DOMAIN T : k1 # k2 => T[k1]["license"] # T[k2]["license"]
       /\ (/\ last.op = "update" /\ last.res = "organization" /\ last.fault = "none"
           /\ LastParsed /\ Truthy(LastId)
           /\ "license" \in DOMAIN LastBody
           /\ \E k \in DOMAIN old : k # LastId /\ old[k]["license"] = LastBody["license"])
          => last.status = 409 /\ tables = before
       /\ (/\ last.op = "update" /\ last.res = "organization" /\ last.fault = "none"
           /\ LastParsed /\ Truthy(LastId)
           /\ LastId \in DOMAIN old
           /\ "license" \in DOMAIN LastBody
           /\ old[LastId]["license"] = LastBody["license"]
           /\ \A k \in DOMAIN old : k # LastId => old[k]["license"] # LastBody["license"])
          => last.status = 200 /\ T[LastId]["license"] = LastBody["license"]

\* an update gave an organization the license of an organization that the
\* first page of the scan does not reach, and was answered 200
C19_UpdateTookLicenseBeyondFirstPage ==
    /\ last.op = "update"
    /\ last.res = "organization"
    /\ last.status = 200
    /\ "license" \in DOMAIN LastBody
    /\ \E k \in DOMAIN before["organization"] \ FirstPage(before["organization"]) :
          /\ k # LastId
          /\ before["organization"][k]["license"] = LastBody["license"]
          /\ tables["organization"][k]["license"] = tables["organization"][LastId]["license"]

\* the last request is an update of a stored user that sets a well-formed
\* email, and no call of the store fails for a reason of the service
LastSetsEmailOfStoredUser ==
    /\ last.op = "update"
    /\ last.res = "user"
    /\ last.fault = "none"
    /\ LastParsed
    /\ LastId \in DOMAIN before["user"]
    /\ "email" \in DOMAIN LastBody
    /\ update_validation("user", LastBody) = 0

\* C20: an update of a stored user that sets a well-formed email no other
\* user holds is answered 200 and stores the email in lower case; when
\* another user holds the email it is answered 409 and the store is unchanged.
C20_EmailUpdateStoredLowercasedOrConflict ==
    LastSetsEmailOfStoredUser =>
        IF \E k \in DOMAIN before["user"] :
               k # LastId /\ before["user"][k]["email"] = LastUniqueValue
        THEN last.status = 409 /\ tables = before
        ELSE last.status = 200 /\ tables["user"][LastId]["email"] = LastUniqueValue

\* an update of a stored user set an email no user holds, on a table without
\* the index "email-index": it was answered 500 and nothing was written
C20_EmailUpdateAnswered500 ==
    /\ LastSetsEmailOfStoredUser
    /\ "email-index" \notin TableIndexes("user")
    /\ \A k \in DOMAIN before["user"] : before["user"][k]["email"] # LastUniqueValue
    /\ last.status = 500
    /\ tables = before

\* C21: no answer of the create, get and update handlers of users carries a
\* password: the hash every stored user record holds is taken out of the
\* record before it is serialised.
C21_NoPasswordInUserResponses ==
    /\ (last.res = "user" /\ last.op \in {"create", "update"})
          => "password" \notin DOMAIN last.data
    /\ \A k \in DOMAIN tables["user"] :
          /\ "password" \in DOMAIN tables["user"][k]
          /\ get_user_handler(GetEvent(k), tables["user"], "none").status = 200
          /\ DOMAIN get_user_handler(GetEvent(k), tables["user"], "none").data
               = DOMAIN tables["user"][k] \ {"password"}

\* an update that set a user's password was answered 200 with the record,
\* which is stored with the new hash
C21_PasswordUpdatedAndNotReturned ==
    /\ last.op = "update"
    /\ last.res = "user"
    /\ last.status = 200
    /\ "password" \in DOMAIN LastBody
    /\ tables["user"][LastId]["password"] = hash_password(LastBody["password"])
    /\ DOMAIN last.data = DOMAIN tables["user"][LastId] \ {"password"}

\* ------------------------------------------------------------------------
\* application/utils/helpers.py and application/create_application.py
\* ------------------------------------------------------------------------
REQUIRED_APPLICATION_FIELDS == <<"name", "organization_id", "client_id", "platform">>

\* create_application_data(body): the id, three fields of the body and the
\* timestamps
create_application_data(body, uuid, time) ==
    [id |-> uuid,
     name |-> body["name"],
     author |-> Get(body, "author"),
     status |-> GetOr(body, "status", Str(<<"a", "c", "t", "i", "v", "e">>)),
     created_at |-> IsoFormat(time),
     updated_at |-> IsoFormat(time)]

\* save_application_to_db: every exception of put_item is answered 409
save_application_to_db(T, application_data, fault) ==
    SaveResult(put_item(T, application_data, fault = "write"), 409)

\* the positional parameters create_success_response declares, and the
\* positional arguments the handler calls it with
create_success_response_parameters == 1
create_success_response_arguments == 2

\* calling a function of some parameters with some positional arguments:
\* TypeError unless the numbers agree
CallRaisesTypeError(parameters, arguments) == parameters # arguments

\* the end of create_application.handler, s being what save_application_to_db
\* returned: the call of create_success_response inside the handler's try,
\* whose "except Exception" answers 500
create_application_answer(s, application_data) ==
    IF s.status # 0 THEN Resp(s.status, s.table, EmptyMap)
    ELSE IF CallRaisesTypeError(create_success_response_parameters,
                                create_success_response_arguments)
    THEN Resp(500, s.table, EmptyMap)
    ELSE Resp(201, s.table, application_data)

\* create_application.handler once the body is parsed
create_application_parsed(p, T, uuid, time, fault) ==
    IF p.err # 0 THEN Resp(p.err, T, EmptyMap)
    ELSE IF validate_required_fields(REQUIRED_APPLICATION_FIELDS, p.body) # 0
    THEN Resp(400, T, EmptyMap)
    ELSE create_application_answer(
             save_application_to_db(T, create_application_data(p.body, uuid, time), fault),
             create_application_data(p.body, uuid, time))

\* create_application.handler
create_application_handler(event, T, uuid, time, fault) ==
    create_application_parsed(parse_request_body(event), T, uuid, time, fault)

ApplicationBase ==
    [name |-> sX, organization_id |-> sOrg, client_id |-> Str(<<"c", "1">>),
     platform |-> Str(<<"w", "e", "b">>)]

ApplicationBodies ==
    {ApplicationBase,
     Put(Put(ApplicationBase, "author", sY), "status", Inactive),
     Put(ApplicationBase, "name", sY),
     [name |-> sX, author |-> sY, status |-> Active],
     Put(ApplicationBase, "platform", Str(<<>>)),
     Put(ApplicationBase, "client_id", Null)}

ApplicationEvents ==
    {[body |-> Dict(b)] : b \in ApplicationBodies}
      \cup BadEvents \cup BadBodyEvents

AllTables == Resources \cup {"application"}

InitApplication ==
    /\ tables = [r \in AllTables |-> EmptyTable]
    /\ now = 0
    /\ nreq = 0
    /\ last = NoRequest
    /\ before = [r \in AllTables |-> EmptyTable]
    /\ procs = [p \in Procs |-> Idle]

CreateApplication ==
    /\ nreq < MaxReq
    /\ \E event \in ApplicationEvents, uuid \in Uuids :
         \E fault \in (IF event = [body |-> Dict(ApplicationBase)]
                        THEN {"none", "write"} ELSE {"none"}) :
           Handled("create", "application", event, uuid, fault,
                   create_application_handler(event, tables["application"], uuid, now, fault))

NextApplication == Tick \/ CreateApplication

SpecApplication == InitApplication /\ [][NextApplication]_vars

\* the last request is a create-application whose body passes the
\* required-field validation, with a generated id that is free and a store
\* that accepts the write
LastApplicationAccepted ==
    /\ last.op = "create"
    /\ last.res = "application"
    /\ last.fault = "none"
    /\ LastParsed
    /\ \A i \in 1..Len(REQUIRED_APPLICATION_FIELDS) :
          /\ REQUIRED_APPLICATION_FIELDS[i] \in DOMAIN LastBody
          /\ LastBody[REQUIRED_APPLICATION_FIELDS[i]] \notin {Null, Str(<<>>)}
    /\ last.uuid \notin DOMAIN before["application"]

\* C22: a create-application whose body passes the required-field validation
\* and whose write the store accepts stores one new application record and
\* is answered 201 with that application in the body.
C22_ApplicationCreatedAnswered201 ==
    LastApplicationAccepted =>
        /\ DOMAIN tables["application"] = DOMAIN before["application"] \cup {last.uuid}
        /\ \A k \in DOMAIN before["application"] :
              tables["application"][k] = before["application"][k]
        /\ last.status = 201
        /\ last.data = tables["application"][last.uuid]

\* a create-application stored its record and was answered 500
C22_ApplicationStoredAnswered500 ==
    /\ LastApplicationAccepted
    /\ last.uuid \in DOMAIN tables["application"]
    /\ tables["application"][last.uuid]["name"] = LastBody["name"]
    /\ last.status = 500

\* the time a stored start_at or end_at stands for
ScheduleTime(x) == FromIsoFormat(ReplaceZ(x.v)).time

\* C23: every stored schedule record has its start_at strictly before its
\* end_at, after its creation and after every update, the updates that carry
\* only one of the two included.
C23_ScheduleStartsBeforeItEnds ==
    \A k \in DOMAIN tables["schedule"] :
        ScheduleTime(tables["schedule"][k]["start_at"])
            < ScheduleTime(tables["schedule"][k]["end_at"])

\* an update that carried an end_at and no start_at was answered 200 and
\* left a schedule that ends before it starts
C23_EndMovedBeforeStart ==
    /\ last.op = "update"
    /\ last.res = "schedule"
    /\ last.status = 200
    /\ DOMAIN LastBody = {"end_at"}
    /\ ScheduleTime(before["schedule"][LastId]["start_at"])
         < ScheduleTime(before["schedule"][LastId]["end_at"])
    /\ tables["schedule"][LastId]["start_at"] = before["schedule"][LastId]["start_at"]
    /\ ScheduleTime(tables["schedule"][LastId]["end_at"])
         < ScheduleTime(tables["schedule"][LastId]["start_at"])

\* C24: a create handler of any resource that answers another status than
\* 201 leaves the store as it was: no record is inserted by a call that
\* reports an error.
C24_FailedCreateLeavesStoreUnchanged ==
    (last.op = "create" /\ last.status # 201) => tables = before

\* a create was answered with an error status, and the table holds a record
\* under the generated id that it did not hold before
C24_ErrorAnswerAfterInsert ==
    /\ last.op = "create"
    /\ last.status \notin {0, 201}
    /\ last.uuid \notin DOMAIN before[last.res]
    /\ last.uuid \in DOMAIN tables[last.res]

\* C25: the record in the body of an update answered 200 holds, for every
\* field of the update set of that request, the value the request wrote,
\* also when another update of the same record runs at the same time.
C25_AnswerHoldsWhatTheRequestWrote ==
    \A p \in Procs :
        (procs[p].op = "update" /\ procs[p].pc = "done" /\ procs[p].status = 200) =>
            \A f \in DOMAIN procs[p].data : procs[p].item[f] = procs[p].data[f]

\* an update was answered 200 with a record that holds, in a field the
\* update set, the value another update wrote between the write and the read
C25_AnswerHoldsAnotherWrite ==
    \E p, q \in Procs :
        /\ p # q
        /\ procs[p].op = "update" /\ procs[p].pc = "done" /\ procs[p].status = 200
        /\ procs[q].op = "update" /\ procs[q].wrote
        /\ procs[q].res = procs[p].res /\ procs[q].id = procs[p].id
        /\ \E f \in DOMAIN procs[p].data \cap DOMAIN procs[q].data :
              /\ procs[p].data[f] # procs[q].data[f]
              /\ procs[p].item[f] = procs[q].data[f]

\* C26: the updated_at of a record never decreases: whatever the
\* interleaving of the updates of one record, each write leaves an
\* updated_at that is no earlier than the one it replaces.
C26_UpdatedAtNeverDecreases ==
    [][\A res \in Resources : \A k \in DOMAIN tables[res] :
          "updated_at" \in DOMAIN tables[res][k] =>
              TimeOf(tables'[res][k]["updated_at"]) >= TimeOf(tables[res][k]["updated_at"])]_vars

\* two updates of one record were both written, and the record holds the
\* updated_at of the one that read the clock first and wrote last
C26_EarlierTimestampWrittenLast ==
    \E p, q \in Procs :
        /\ p # q
        /\ procs[p].op = "update" /\ procs[q].op = "update"
        /\ procs[p].res = procs[q].res /\ procs[p].id = procs[q].id
        /\ procs[p].wrote /\ procs[q].wrote
        /\ last.by = p
        /\ procs[p].at < procs[q].at
        /\ tables[procs[p].res][procs[p].id]["updated_at"] = IsoFormat(procs[p].at)

\* ------------------------------------------------------------------------
\* The Cognito user pool of the stack, and the bodies of the handlers that
\* read event["body"] with json.loads alone
\* ------------------------------------------------------------------------
\* the keys of a body json.loads returned are the characters of their names
kEmail == <<"e", "m", "a", "i", "l">>
kFirstName == <<"f", "i", "r", "s", "t", "_", "n", "a", "m", "e">>
kLastName == <<"l", "a", "s", "t", "_", "n", "a", "m", "e">>
kRole == <<"r", "o", "l", "e">>
kOrganizationId == <<"o", "r", "g", "a", "n", "i", "z", "a", "t", "i", "o", "n", "_", "i", "d">>
kInvitedBy == <<"i", "n", "v", "i", "t", "e", "d", "_", "b", "y">>
kPassword == <<"p", "a", "s", "s", "w", "o", "r", "d">>
kNewPassword == <<"n", "e", "w", "_", "p", "a", "s", "s", "w", "o", "r", "d">>
kSession == <<"s", "e", "s", "s", "i", "o", "n">>

\* the text of a JSON object with the members pairs, each a key and a value
RECURSIVE MembersText(_, _)
MembersText(pairs, i) ==
    IF i > Len(pairs) THEN <<>>
    ELSE (IF i > 1 THEN <<",">> ELSE <<>>)
           \o <<"\"">> \o pairs[i][1] \o <<"\"", ":">> \o JsonDumps(pairs[i][2], <<",">>)
           \o MembersText(pairs, i + 1)

ObjectText(pairs) == Str(<<"{">> \o MembersText(pairs, 1) \o <<"}">>)

\* needle in haystack, for two str
IsSubstring(needle, haystack) ==
    \E i \in 0..(Len(haystack) - Len(needle)) :
        SubSeq(haystack, i + 1, i + Len(needle)) = needle

\* `field in body` for a value json.loads returned: raises = TypeError
FieldIn(field, body) ==
    CASE body.t = "dict" -> [raises |-> FALSE, in |-> field \in DOMAIN body.v]
      [] body.t = "list" ->
           [raises |-> FALSE, in |-> \E i \in 1..Len(body.v) : body.v[i] = Str(field)]
      [] body.t = "str" -> [raises |-> FALSE, in |-> IsSubstring(field, body.v)]
      [] OTHER -> [raises |-> TRUE, in |-> FALSE]

\* the loop "for field in required_fields: if field not in body: return 400":
\* 500 when the test raises, 0 when every field is in the body
RequiredIn(required, body) ==
    IF required # <<>> /\ FieldIn(required[1], body).raises THEN 500
    ELSE IF \E i \in 1..Len(required) : ~FieldIn(required[i], body).in THEN 400
    ELSE 0

\* json.loads(event.get("body", "{}")): raises when the body is no str
\* (TypeError) or no JSON (JSONDecodeError)
LoadBody(event) ==
    IF "body" \notin DOMAIN event THEN [raises |-> FALSE, val |-> Dict(EmptyMap)]
    ELSE IF ~IsStr(event["body"]) THEN [raises |-> TRUE, val |-> Null]
    ELSE [raises |-> ~JsonLoads(event["body"].v).ok, val |-> JsonLoads(event["body"].v).val]

\* the strings a call of the Cognito client takes: botocore raises
\* ParamValidationError, before it sends anything, unless each is a str, and
\* the username one of at least one character
ParametersValid(body, username, others) ==
    /\ IsStr(body[username]) /\ Len(body[username].v) >= 1
    /\ \A i \in 1..Len(others) : IsStr(body[others[i]])

UsernameExists == "UsernameExistsException"
ResourceNotFound == "ResourceNotFoundException"
InvalidPassword == "InvalidPasswordException"
NotAuthorized == "NotAuthorizedException"

\* the groups create_cognito_groups declares
PoolGroups ==
    {Str(<<"s", "u", "p", "e", "r", "a", "d", "m", "i", "n">>), RoleAdmin,
     Str(<<"u", "s", "e", "r">>), Str(<<"v", "i", "e", "w", "e", "r">>)}

\* the name the pool keeps a user under: the email, the case of which the pool
\* ignores (sign_in_case_sensitive=False)
PoolName(email) == Str(Lower(email.v))

\* the password policy of the pool: eight characters at least, with a lower
\* case letter, an upper case letter, a digit and a symbol (the symbols the
\* modelled alphabet has)
PasswordSymbols ==
    {"^", "$", ".", "[", "]", "{", "}", "?", "!", "@", "#", "%", "&",
     "/", ",", ">", "<", ":", ";", "|", "_", "~", "=", "+", "-"}

PasswordMinLength == 8

MeetsPasswordPolicy(password) ==
    /\ Len(password.v) >= PasswordMinLength
    /\ \E i \in 1..Len(password.v) : \E j \in 1..26 : password.v[i] = LowerLetters[j]
    /\ \E i \in 1..Len(password.v) : \E j \in 1..26 : password.v[i] = UpperLetters[j]
    /\ \E i \in 1..Len(password.v) : password.v[i] \in DigitChars
    /\ \E i \in 1..Len(password.v) : password.v[i] \in PasswordSymbols

\* admin_create_user(Username=email, TemporaryPassword=password, ...): sub is
\* the id the pool generates, which is the Username of the user it returns;
\* first is the exception the pool raises for a request that has two causes
admin_create_user(pool, email, password, sub, fails, first) ==
    IF fails THEN [exc |-> ServiceError, pool |-> pool]
    ELSE IF PoolName(email) \in DOMAIN pool /\ ~MeetsPasswordPolicy(password)
    THEN [exc |-> first, pool |-> pool]
    ELSE IF PoolName(email) \in DOMAIN pool THEN [exc |-> UsernameExists, pool |-> pool]
    ELSE IF ~MeetsPasswordPolicy(password) THEN [exc |-> InvalidPassword, pool |-> pool]
    ELSE [exc |-> NoExc,
          pool |-> (PoolName(email) :>
                      [id |-> sub, email |-> email, groups |-> {},
                       status |-> "FORCE_CHANGE_PASSWORD"]) @@ pool]

\* admin_set_user_password(Username=email, Password=password, Permanent=True)
admin_set_user_password(pool, email, password, fails) ==
    IF fails THEN [exc |-> ServiceError, pool |-> pool]
    ELSE IF PoolName(email) \notin DOMAIN pool THEN [exc |-> ResourceNotFound, pool |-> pool]
    ELSE IF ~MeetsPasswordPolicy(password) THEN [exc |-> InvalidPassword, pool |-> pool]
    ELSE [exc |-> NoExc, pool |-> [pool EXCEPT ![PoolName(email)].status = "CONFIRMED"]]

\* admin_add_user_to_group(Username=email, GroupName=group)
admin_add_user_to_group(pool, email, group, fails) ==
    IF Len(group.v) < 1 THEN [exc |-> ParamValidationError, pool |-> pool]
    ELSE IF fails THEN [exc |-> ServiceError, pool |-> pool]
    ELSE IF group \notin PoolGroups \/ PoolName(email) \notin DOMAIN pool
    THEN [exc |-> ResourceNotFound, pool |-> pool]
    ELSE [exc |-> NoExc,
          pool |-> [pool EXCEPT ![PoolName(email)].groups = @ \cup {group}]]

\* table.put_item(Item=item) without a condition: the item replaces the one
\* stored under its id
put_item_unconditional(T, item, fails) ==
    IF fails THEN [exc |-> ServiceError, table |-> T]
    ELSE [exc |-> NoExc, table |-> (item["id"] :> item) @@ T]

\* except ClientError: 409 for UsernameExistsException, 500 otherwise
CognitoStatus(exc) == IF exc = UsernameExists THEN 409 ELSE 500

\* the answer of a handler that writes several stores
Answer(status, S, data) == [status |-> status, tables |-> S, data |-> data]

\* one of the passwords generate_temp_password returns
TempPassword == Str(<<"a", "b", "A", "B", "1", "2", "!", "@">>)

INVITE_REQUIRED_FIELDS == <<kEmail, kFirstName, kLastName, kRole, kOrganizationId, kInvitedBy>>

ForceChangePassword ==
    Str(<<"F", "O", "R", "C", "E", "_", "C", "H", "A", "N", "G", "E", "_",
          "P", "A", "S", "S", "W", "O", "R", "D">>)
Confirmed == Str(<<"C", "O", "N", "F", "I", "R", "M", "E", "D">>)
System == Str(<<"s", "y", "s", "t", "e", "m">>)
Superadmin == Str(<<"s", "u", "p", "e", "r", "a", "d", "m", "i", "n">>)
SystemOrganization ==
    Str(<<"S", "y", "s", "t", "e", "m", " ", "O", "r", "g", "a", "n", "i", "z", "a", "t", "i", "o", "n">>)

\* invite_user.handler: the users record of the invited user
invited_user_data(body, user_id, time) ==
    [id |-> user_id, cognito_sub |-> user_id,
     first_name |-> body[kFirstName], last_name |-> body[kLastName],
     email |-> Str(Lower(body[kEmail].v)), role |-> body[kRole],
     organization_id |-> body[kOrganizationId],
     created_at |-> IsoFormat(time), updated_at |-> IsoFormat(time),
     created_by |-> body[kInvitedBy], updated_by |-> body[kInvitedBy],
     status |-> ForceChangePassword]

\* invite_user.handler: the body of its 201
invited_user_answer(body, user_id) ==
    [user_id |-> user_id, temporary_password |-> TempPassword,
     user |-> Dict([id |-> user_id, email |-> body[kEmail],
                    first_name |-> body[kFirstName], last_name |-> body[kLastName],
                    role |-> body[kRole], organization_id |-> body[kOrganizationId],
                    status |-> ForceChangePassword])]

\* invite_user.handler once put_item returned p
invite_user_saved(body, p, pool, user_id, S) ==
    IF p.exc # NoExc
    THEN Answer(CognitoStatus(p.exc), [S EXCEPT !["cognito"] = pool], EmptyMap)
    ELSE Answer(201, [S EXCEPT !["cognito"] = pool, !["user"] = p.table],
                invited_user_answer(body, user_id))

\* invite_user.handler once admin_add_user_to_group returned g
invite_user_grouped(body, g, user_id, S, time, fault) ==
    IF g.exc # NoExc
    THEN Answer(CognitoStatus(g.exc), [S EXCEPT !["cognito"] = g.pool], EmptyMap)
    ELSE invite_user_saved(
             body,
             put_item_unconditional(S["user"], invited_user_data(body, user_id, time),
                                    fault = "write"),
             g.pool, user_id, S)

\* invite_user.handler once admin_create_user returned c
invite_user_created(body, c, S, time, fault) ==
    IF c.exc # NoExc THEN Answer(CognitoStatus(c.exc), S, EmptyMap)
    ELSE invite_user_grouped(
             body,
             admin_add_user_to_group(c.pool, body[kEmail], body[kRole], fault = "group"),
             c.pool[PoolName(body[kEmail])].id, S, time, fault)

\* invite_user.handler once json.loads returned l
invite_user_loaded(l, S, sub, time, fault) ==
    IF l.raises THEN Answer(500, S, EmptyMap)
    ELSE IF RequiredIn(INVITE_REQUIRED_FIELDS, l.val) # 0
    THEN Answer(RequiredIn(INVITE_REQUIRED_FIELDS, l.val), S, EmptyMap)
    ELSE IF l.val.t # "dict" THEN Answer(500, S, EmptyMap)
    ELSE IF ~ParametersValid(l.val.v, kEmail,
                             <<kFirstName, kLastName, kOrganizationId, kRole, kInvitedBy>>)
    THEN Answer(500, S, EmptyMap)
    ELSE invite_user_created(
             l.val.v,
             admin_create_user(S["cognito"], l.val.v[kEmail], TempPassword, sub,
                               fault = "create", UsernameExists),
             S, time, fault)

\* invite_user.handler
invite_user_handler(event, S, sub, time, fault) ==
    invite_user_loaded(LoadBody(event), S, sub, time, fault)

SUPERADMIN_REQUIRED_FIELDS == <<kEmail, kFirstName, kLastName, kPassword>>

\* create_initial_superadmin.handler: the organization it stores
system_organization_data(organization_id, time) ==
    [id |-> organization_id, name |-> SystemOrganization,
     description |-> Str(<<"D", "e", "f", "a", "u", "l", "t">>),
     created_at |-> IsoFormat(time), updated_at |-> IsoFormat(time),
     created_by |-> System, updated_by |-> System]

\* create_initial_superadmin.handler: the users record of the superadmin
superadmin_user_data(body, user_id, organization_id, time) ==
    [id |-> user_id, cognito_sub |-> user_id,
     first_name |-> body[kFirstName], last_name |-> body[kLastName],
     email |-> Str(Lower(body[kEmail].v)), role |-> Superadmin,
     organization_id |-> organization_id,
     created_at |-> IsoFormat(time), updated_at |-> IsoFormat(time),
     created_by |-> System, updated_by |-> System, status |-> Confirmed]

\* create_initial_superadmin.handler: the body of its 201
superadmin_answer(body, user_id, organization_id) ==
    [user_id |-> user_id, organization_id |-> organization_id,
     user |-> Dict([id |-> user_id, email |-> body[kEmail],
                    first_name |-> body[kFirstName], last_name |-> body[kLastName],
                    role |-> Superadmin, organization_id |-> organization_id,
                    status |-> Confirmed])]

\* create_initial_superadmin.handler once the users put_item returned p
superadmin_saved(body, p, user_id, organization_id, S) ==
    IF p.exc # NoExc THEN Answer(CognitoStatus(p.exc), S, EmptyMap)
    ELSE Answer(201, [S EXCEPT !["user"] = p.table],
                superadmin_answer(body, user_id, organization_id))

\* create_initial_superadmin.handler once admin_set_user_password returned w
superadmin_password_set(body, w, user_id, organization_id, S, time, fault) ==
    IF w.exc # NoExc
    THEN Answer(CognitoStatus(w.exc), [S EXCEPT !["cognito"] = w.pool], EmptyMap)
    ELSE superadmin_saved(
             body,
             put_item_unconditional(
                 S["user"], superadmin_user_data(body, user_id, organization_id, time),
                 fault = "write"),
             user_id, organization_id, [S EXCEPT !["cognito"] = w.pool])

\* create_initial_superadmin.handler once admin_add_user_to_group returned g
superadmin_grouped(body, g, user_id, organization_id, S, time, fault) ==
    IF g.exc # NoExc
    THEN Answer(CognitoStatus(g.exc), [S EXCEPT !["cognito"] = g.pool], EmptyMap)
    ELSE superadmin_password_set(
             body,
             admin_set_user_password(g.pool, body[kEmail], body[kPassword],
                                     fault = "password"),
             user_id, organization_id, S, time, fault)

\* create_initial_superadmin.handler once admin_create_user returned c
superadmin_created(body, c, organization_id, S, time, fault) ==
    IF c.exc # NoExc THEN Answer(CognitoStatus(c.exc), S, EmptyMap)
    ELSE superadmin_grouped(
             body,
             admin_add_user_to_group(c.pool, body[kEmail], Superadmin, fault = "group"),
             c.pool[PoolName(body[kEmail])].id, organization_id, S, time, fault)

\* create_initial_superadmin.handler once the organization put_item returned o:
\* S holds the organization from here on
superadmin_organized(val, o, organization_id, S, sub, time, fault, first) ==
    IF o.exc # NoExc THEN Answer(CognitoStatus(o.exc), S, EmptyMap)
    ELSE IF val.t # "dict"
    THEN Answer(500, [S EXCEPT !["organization"] = o.table], EmptyMap)
    ELSE IF ~ParametersValid(val.v, kEmail, <<kFirstName, kLastName, kPassword>>)
    THEN Answer(500, [S EXCEPT !["organization"] = o.table], EmptyMap)
    ELSE superadmin_created(
             val.v,
             admin_create_user(S["cognito"], val.v[kEmail], val.v[kPassword], sub,
                               fault = "create", first),
             organization_id, [S EXCEPT !["organization"] = o.table], time, fault)

\* create_initial_superadmin.handler once json.loads returned l
superadmin_loaded(l, S, uuid, sub, time, fault, first) ==
    IF l.raises THEN Answer(500, S, EmptyMap)
    ELSE IF RequiredIn(SUPERADMIN_REQUIRED_FIELDS, l.val) # 0
    THEN Answer(RequiredIn(SUPERADMIN_REQUIRED_FIELDS, l.val), S, EmptyMap)
    ELSE superadmin_organized(
             l.val,
             put_item_unconditional(S["organization"],
                                    system_organization_data(uuid, time), fault = "org"),
             uuid, S, sub, time, fault, first)

\* create_initial_superadmin.handler
create_initial_superadmin_handler(event, S, uuid, sub, time, fault, first) ==
    superadmin_loaded(LoadBody(event), S, uuid, sub, time, fault, first)

\* ------------------------------------------------------------------------
\* The users table written by create-user, invite-user and the initial
\* superadmin, beside the user pool
\* ------------------------------------------------------------------------
RoleManager == Str(<<"m", "a", "n", "a", "g", "e", "r">>)
StrongPassword == Str(<<"P", "a", "s", "s", "w", "0", "r", "d", "!">>)

InvitePairs(email, role) ==
    <<(<<kEmail, email>>), (<<kFirstName, sX>>), (<<kLastName, sY>>), (<<kRole, role>>),
      (<<kOrganizationId, sOrg>>), (<<kInvitedBy, sX>>)>>

SuperadminPairs(email, password) ==
    <<(<<kEmail, email>>), (<<kFirstName, sX>>), (<<kLastName, sY>>),
      (<<kPassword, password>>)>>

\* bodies that are no JSON object with the fields, or no JSON text
OtherTextEvents ==
    {[body |-> Str(<<"[", "]">>)], [body |-> JsonNumberText], [body |-> BadJsonText],
     [body |-> Null], [body |-> Dict(UserBase)], EmptyMap}

InviteBaseEvents ==
    {[body |-> ObjectText(InvitePairs(e, RoleAdmin))] : e \in {MailA, MailAUpper}}

InviteEvents ==
    InviteBaseEvents
      \cup {[body |-> ObjectText(InvitePairs(MailC, RoleAdmin))],
            [body |-> ObjectText(InvitePairs(MailA, RoleManager))],
            [body |-> ObjectText(InvitePairs(MailA, Str(<<>>)))],
            [body |-> ObjectText(InvitePairs(Num(7), RoleAdmin))],
            [body |-> ObjectText(SubSeq(InvitePairs(MailA, RoleAdmin), 1, 3))]}
      \cup OtherTextEvents

SuperadminBaseEvents == {[body |-> ObjectText(SuperadminPairs(MailA, StrongPassword))]}

SuperadminEvents ==
    SuperadminBaseEvents
      \cup {[body |-> ObjectText(SuperadminPairs(MailC, StrongPassword))],
            [body |-> ObjectText(SuperadminPairs(MailA, Pass1))],
            [body |-> ObjectText(SubSeq(SuperadminPairs(MailA, StrongPassword), 1, 3))],
            [body |-> Str(<<"[", "\"", "e", "m", "a", "i", "l", "\"", ",",
                            "\"", "f", "i", "r", "s", "t", "_", "n", "a", "m", "e", "\"", ",",
                            "\"", "l", "a", "s", "t", "_", "n", "a", "m", "e", "\"", ",",
                            "\"", "p", "a", "s", "s", "w", "o", "r", "d", "\"", "]">>)]}
      \cup OtherTextEvents

\* the ids the pool may give a user: one no create-user draws, or one of those
Subs == Uuids \cup {Str(<<"s", "1">>)}

\* the ids the pool may give its next user: it gives no id twice
FreeSubs(pool) == Subs \ {pool[n].id : n \in DOMAIN pool}

CognitoStores == Resources \cup {"cognito"}

InitCognito ==
    /\ tables = [r \in CognitoStores |-> EmptyTable]
    /\ now = 0
    /\ nreq = 0
    /\ last = NoRequest
    /\ before = [r \in CognitoStores |-> EmptyTable]
    /\ procs = [p \in Procs |-> Idle]

\* a handler that writes several stores answered r to the request
HandledStores(op, event, uuid, fault, r) ==
    /\ tables' = r.tables
    /\ last' = [op |-> op, res |-> "user", event |-> event, uuid |-> uuid, fault |-> fault,
                at |-> now, status |-> r.status, data |-> r.data, by |-> "none"]
    /\ before' = tables
    /\ nreq' = nreq + 1
    /\ UNCHANGED <<now, procs>>

InviteUser ==
    /\ nreq < MaxReq
    /\ \E event \in InviteEvents, sub \in FreeSubs(tables["cognito"]) :
         \E fault \in (IF event \in InviteBaseEvents
                        THEN {"none", "create", "group", "write"} ELSE {"none"}) :
           HandledStores("invite", event, sub, fault,
                         invite_user_handler(event, tables, sub, now, fault))

CreateInitialSuperadmin ==
    /\ nreq < MaxReq
    /\ \E event \in SuperadminEvents, uuid \in Uuids, sub \in FreeSubs(tables["cognito"]) :
         \E fault \in (IF event \in SuperadminBaseEvents
                        THEN {"none", "org", "create", "group", "password", "write"}
                        ELSE {"none"}),
            first \in {UsernameExists, InvalidPassword} :
           HandledStores("superadmin", event, uuid, fault,
                         create_initial_superadmin_handler(event, tables, uuid, sub, now,
                                                           fault, first))

NextCognito == Tick \/ CreateUser \/ InviteUser \/ CreateInitialSuperadmin

SpecCognito == InitCognito /\ [][NextCognito]_vars

\* no two records of the users table T hold one email
EmailsDistinct(T) ==
    \A i, j \in DOMAIN T : (i # j /\ "email" \in DOMAIN T[i] /\ "email" \in DOMAIN T[j]) =>
                              T[i]["email"] # T[j]["email"]

\* C27: with requests handled one at a time, an invite-user never replaces a
\* record the users table holds and never leaves two user records with one
\* email, whatever create-user and invite-user requests came before: an
\* invite for an email a create-user stored included.
C27_InviteKeepsUsersDistinct ==
    last.op = "invite" =>
        /\ \A id \in DOMAIN before["user"] :
               id \in DOMAIN tables["user"] /\ tables["user"][id] = before["user"][id]
        /\ EmailsDistinct(before["user"]) => EmailsDistinct(tables["user"])

\* create-user stored a user, and an invite for the same email, answered 201,
\* stored a second record with that email under the id of the pool
C27_InvitedEmailStoredTwice ==
    /\ last.op = "invite"
    /\ last.status = 201
    /\ EmailsDistinct(before["user"])
    /\ \E i \in DOMAIN before["user"] :
          /\ "password" \in DOMAIN before["user"][i]
          /\ last.uuid # i
          /\ last.uuid \in DOMAIN tables["user"]
          /\ tables["user"][i] = before["user"][i]
          /\ tables["user"][last.uuid]["email"] = before["user"][i]["email"]

\* the email of the last request, when its body is a JSON object with a str
\* under email
LastEmailGiven ==
    /\ ~LoadBody(last.event).raises
    /\ LoadBody(last.event).val.t = "dict"
    /\ kEmail \in DOMAIN LoadBody(last.event).val.v
    /\ IsStr(LoadBody(last.event).val.v[kEmail])

LastPoolName == PoolName(LoadBody(last.event).val.v[kEmail])

\* the pool user n has its record in the users table T
HasRecord(pool, n, T) == pool[n].id \in DOMAIN T /\ T[pool[n].id]["email"] = n

\* C28: invite-user does all of its work or none of it. An invite that
\* answers an error leaves no pool user behind; after an invite the pool
\* user of the request's email exists exactly when its users record does;
\* and an invite is answered 409 only for an email whose user was invited in
\* full, so that the retry of a failed invite is not rejected with 409.
C28_InviteAllOrNothing ==
    (last.op = "invite" /\ LastEmailGiven) =>
        /\ last.status # 201 => tables["cognito"] = before["cognito"]
        /\ LastPoolName \in DOMAIN tables["cognito"] =>
               HasRecord(tables["cognito"], LastPoolName, tables["user"])
        /\ tables["user"] # before["user"] => LastPoolName \in DOMAIN tables["cognito"]
        /\ last.status = 409 => HasRecord(before["cognito"], LastPoolName, before["user"])

\* an invite whose group assignment or users-table write failed was answered
\* 500 after the pool user was created: the pool has the user, the users
\* table has no record of it
C28_FailedInviteLeftPoolUser ==
    /\ last.op = "invite"
    /\ last.status = 500
    /\ LastEmailGiven
    /\ LastPoolName \notin DOMAIN before["cognito"]
    /\ LastPoolName \in DOMAIN tables["cognito"]
    /\ tables["user"] = before["user"]
    /\ tables["cognito"][LastPoolName].id \notin DOMAIN tables["user"]

SystemOrganizations(T) == {k \in DOMAIN T : T[k]["name"] = SystemOrganization}

Superadmins(T) == {k \in DOMAIN T : T[k]["role"] = Superadmin}

\* C29: the creation of the initial superadmin takes effect at most once:
\* there is never more than one "System Organization" and never more than
\* one superadmin user, however often the handler is invoked, and an
\* invocation that answers an error (409, or a failure of Cognito) leaves
\* the organizations table and the users table as they were.
C29_SuperadminAtMostOnce ==
    /\ Cardinality(SystemOrganizations(tables["organization"])) <= 1
    /\ Cardinality(Superadmins(tables["user"])) <= 1
    /\ (last.op = "superadmin" /\ last.status # 201) =>
           /\ tables["organization"] = before["organization"]
           /\ tables["user"] = before["user"]

\* a second invocation for the email of the superadmin was answered 409 and
\* stored a second "System Organization"
C29_SecondOrganizationOn409 ==
    /\ last.op = "superadmin"
    /\ last.status = 409
    /\ Cardinality(Superadmins(tables["user"])) = 1
    /\ Cardinality(SystemOrganizations(before["organization"])) = 1
    /\ Cardinality(SystemOrganizations(tables["organization"])) = 2

\* ------------------------------------------------------------------------
\* change_password.handler: the answer to the NEW_PASSWORD_REQUIRED challenge
\* ------------------------------------------------------------------------
PASSWORD_REQUIRED_FIELDS == <<kEmail, kNewPassword, kSession>>

UserNotFound == "UserNotFoundException"

\* the session the sign-in of an invited user returned with the challenge
ChallengeSession == Str(<<"S", "1">>)
OtherSession == Str(<<"S", "0">>)

\* admin_respond_to_auth_challenge(ChallengeName="NEW_PASSWORD_REQUIRED", ...):
\* outcome is what the pool does with a request it accepts, "tokens" for a
\* result with AuthenticationResult and "challenge" for a result that names
\* a further challenge
admin_respond_to_auth_challenge(pool, session, email, new_password, outcome) ==
    IF outcome = "service" THEN [exc |-> ServiceError, pool |-> pool, authenticated |-> FALSE]
    ELSE IF PoolName(email) \notin DOMAIN pool
    THEN [exc |-> UserNotFound, pool |-> pool, authenticated |-> FALSE]
    ELSE IF session # ChallengeSession \/ pool[PoolName(email)].status # "FORCE_CHANGE_PASSWORD"
    THEN [exc |-> NotAuthorized, pool |-> pool, authenticated |-> FALSE]
    ELSE IF ~MeetsPasswordPolicy(new_password)
    THEN [exc |-> InvalidPassword, pool |-> pool, authenticated |-> FALSE]
    ELSE [exc |-> NoExc, pool |-> [pool EXCEPT ![PoolName(email)].status = "CONFIRMED"],
          authenticated |-> outcome # "challenge"]

\* admin_get_user(Username=email)
admin_get_user(pool, email, fails) ==
    IF fails THEN [exc |-> ServiceError, user |-> EmptyMap]
    ELSE IF PoolName(email) \notin DOMAIN pool THEN [exc |-> UserNotFound, user |-> EmptyMap]
    ELSE [exc |-> NoExc, user |-> [email |-> pool[PoolName(email)].email]]

\* except ClientError of the inner try: 401, 400 or 500
ChallengeStatus(exc) ==
    IF exc = NotAuthorized THEN 401 ELSE IF exc = InvalidPassword THEN 400 ELSE 500

\* the status of an invocation that returned no response: the function ran
\* off its end and returned None
NoResponse == 0

\* change_password.handler once admin_get_user returned u
change_password_authenticated(u, S) ==
    IF u.exc # NoExc THEN Answer(ChallengeStatus(u.exc), S, EmptyMap)
    ELSE Answer(200, S, u.user)

\* change_password.handler once admin_respond_to_auth_challenge returned a
change_password_responded(body, a, S, outcome) ==
    IF a.exc # NoExc THEN Answer(ChallengeStatus(a.exc), S, EmptyMap)
    ELSE IF a.authenticated
    THEN change_password_authenticated(
             admin_get_user(a.pool, body[kEmail], outcome = "get"),
             [S EXCEPT !["cognito"] = a.pool])
    ELSE Answer(NoResponse, [S EXCEPT !["cognito"] = a.pool], EmptyMap)

\* change_password.handler once json.loads returned l
change_password_loaded(l, S, outcome) ==
    IF l.raises THEN Answer(500, S, EmptyMap)
    ELSE IF RequiredIn(PASSWORD_REQUIRED_FIELDS, l.val) # 0
    THEN Answer(RequiredIn(PASSWORD_REQUIRED_FIELDS, l.val), S, EmptyMap)
    ELSE IF l.val.t # "dict" THEN Answer(500, S, EmptyMap)
    ELSE IF ~ParametersValid(l.val.v, kEmail, <<kNewPassword, kSession>>)
    THEN Answer(500, S, EmptyMap)
    ELSE change_password_responded(
             l.val.v,
             admin_respond_to_auth_challenge(S["cognito"], l.val.v[kSession],
                                             l.val.v[kEmail], l.val.v[kNewPassword], outcome),
             S, outcome)

\* change_password.handler
change_password_handler(event, S, outcome) ==
    change_password_loaded(LoadBody(event), S, outcome)

PasswordPairs(email, password, session) ==
    <<(<<kEmail, email>>), (<<kNewPassword, password>>), (<<kSession, session>>)>>

PasswordBaseEvents ==
    {[body |-> ObjectText(PasswordPairs(e, StrongPassword, ChallengeSession))] :
        e \in {MailA, MailAUpper}}

PasswordEvents ==
    PasswordBaseEvents
      \cup {[body |-> ObjectText(PasswordPairs(MailC, StrongPassword, ChallengeSession))],
            [body |-> ObjectText(PasswordPairs(MailA, Pass1, ChallengeSession))],
            [body |-> ObjectText(PasswordPairs(MailA, StrongPassword, OtherSession))],
            [body |-> ObjectText(PasswordPairs(MailA, Num(7), ChallengeSession))],
            [body |-> ObjectText(SubSeq(PasswordPairs(MailA, StrongPassword, ChallengeSession),
                                        1, 2))]}
      \cup OtherTextEvents

\* the stores after the invite of a@b.co: its pool user has to change the
\* temporary password
InvitedStores ==
    invite_user_handler([body |-> ObjectText(InvitePairs(MailA, RoleAdmin))],
                        [r \in CognitoStores |-> EmptyTable], Str(<<"s", "1">>), 0,
                        "none").tables

InitPassword ==
    /\ tables = InvitedStores
    /\ now = 0
    /\ nreq = 0
    /\ last = NoRequest
    /\ before = InvitedStores
    /\ procs = [p \in Procs |-> Idle]

ChangePassword ==
    /\ nreq < MaxReq
    /\ \E event \in PasswordEvents :
         \E outcome \in (IF event \in PasswordBaseEvents
                          THEN {"tokens", "challenge", "service", "get"} ELSE {"tokens"}) :
           HandledStores("change_password", event, Null, outcome,
                         change_password_handler(event, tables, outcome))

NextPassword == Tick \/ ChangePassword

SpecPassword == InitPassword /\ [][NextPassword]_vars

\* C30: every invocation of the change-password handler returns a response
\* with a statusCode, whatever the challenge call does: a call that succeeds
\* with a result that has no AuthenticationResult included.
C30_ChangePasswordAlwaysAnswers ==
    last.op = "change_password" => last.status # NoResponse

\* the challenge call accepted the new password of the invited user and
\* returned a further challenge: the password is changed and the invocation
\* returned no response
C30_FurtherChallengeNotAnswered ==
    /\ last.op = "change_password"
    /\ last.fault = "challenge"
    /\ last.status = NoResponse
    /\ before["cognito"][LastPoolName].status = "FORCE_CHANGE_PASSWORD"
    /\ tables["cognito"][LastPoolName].status = "CONFIRMED"

====
